---- MODULE Spec2Model ----
(***************************************************************************)
(* Model of the line-oriented e-mail body parser of                        *)
(* src/src/utils/email_parser.py (parse_email_body and its helpers).       *)
(*                                                                         *)
(* A body is the sequence of the pieces between its "\n" characters.  A    *)
(* line is a record [ind, key, toks]: ind says that the line starts with   *)
(* blanks or tabs, key is the header alias written before a colon at the   *)
(* start of the line ("" if there is none) and toks are the                *)
(* whitespace-separated tokens after it.  A token is a record              *)
(* [k, s, a, b, c]: its kind, its text and up to three numbers.  The       *)
(* regular expressions of the source are modelled by what they match on    *)
(* such tokens.                                                            *)
(***************************************************************************)
EXTENDS Integers, Sequences, FiniteSets, TLC

VARIABLES
    body,          \* argument body of parse_email_body (NoneBody: not a str)
    max_gap,       \* argument max_gap
    strategy,      \* argument strategy
    pc,            \* position inside parse_email_body
    text,          \* body after _extract_visible_text
    lines,         \* body.splitlines()
    i,             \* parse_header_block: i (0-based); bottom-up walk: i
    j,             \* parse_header_block: j (0-based)
    compact_idx,   \* parse_header_block: compact_idx
    m,             \* parse_header_block: the line the header pattern matched
    value,         \* parse_header_block: value of the header being collected
    seg,           \* parse_header_block: seg_start, seg_cstart, seg_items, seg_headers
    hdr,           \* parse_header_block: headers, headers_list, segments
    per_type,      \* apply_regexes_per_line result, as an ordered dict
    all_clusters,  \* merged and sorted clusters
    selected,      \* bottom-up accumulator
    result,        \* the returned dict (NoResult before the return)
    conn,          \* IMAPPoller.conn ("None" or "IMAP4_SSL")
    last_seen_uids, \* IMAPPoller._last_seen_uids
    new_uids,      \* IMAPPoller.loop: the UIDs the for loop has still to visit
    uid,           \* IMAPPoller.loop: uid (0 before the first)
    attempt,       \* IMAPPoller.safe_reconnect: i
    raised,        \* the exception that leaves loop or handle_email ("": none)
    unseen,        \* the mail server: UIDs of the messages flagged UNSEEN
    fetchable,     \* the mail server: UIDs whose fetch returns a payload
    link,          \* the mail server can be reached ("up") or not ("down")
    fetched,       \* number of calls of fetch_email_by_uid, per UID
    handled,       \* number of calls of the handler, per UID
    filtered,      \* UIDs a search returned that were in _last_seen_uids
    data,          \* handle_email: data, a dict given by its keys
    step,          \* handle_email: number of the pipeline step to run next
    res            \* handle_email._run_step: what mod.process did

\* the variables of parse_email_body but pc, those of IMAPPoller and of the
\* mail server, and those of handle_email
parserVars == <<body, max_gap, strategy, text, lines, i, j, compact_idx, m,
                value, seg, hdr, per_type, all_clusters, selected, result>>
pollerVars == <<conn, last_seen_uids, new_uids, uid, attempt, unseen,
                fetchable, link, fetched, handled, filtered>>
pipelineVars == <<data, step, res>>

vars == <<pc, raised, parserVars, pollerVars, pipelineVars>>

----------------------------------------------------------------------------
(* Bounds of the model *)

MaxLines == 3
MaxGap == 1
\* blank lines between the two lines of a two-line text
MaxBlank == 2
\* pieces of a text given character by character
MaxChunks == 4
\* messages the mail server receives
MaxUids == 2

----------------------------------------------------------------------------
(* Tokens *)

Tok(k, s, a, b, c) == [k |-> k, s |-> s, a |-> a, b |-> b, c |-> c]

Word(s) == Tok("word", s, 0, 0, 0)         \* letters, possibly a final dot
Email(s) == Tok("email", s, 0, 0, 0)       \* user@example.com
Tel(s) == Tok("tel", s, 0, 0, 0)           \* a phone number with its label
Comma == Tok("comma", ",", 0, 0, 0)        \* a comma glued to the token before
Year(s, y) == Tok("year", s, y, 0, 0)      \* four digits
Time(s, hh, mm) == Tok("time", s, hh, mm, 0)        \* H:MM or HH:MM
Dmy(s, d, mo, y) == Tok("dmy", s, d, mo, y)         \* DD.MM.YYYY
Gap == Tok("sp", " ", 0, 0, 0)             \* extra blank left by a substitution

Line(ind, key, toks) == [ind |-> ind, key |-> key, toks |-> toks]

\* s.strip() == "" for a line
IsBlank(l) == l.key = "" /\ l.toks = <<>>
\* the line is the empty string
IsEmpty(l) == IsBlank(l) /\ ~l.ind

\* a str argument with its pieces, or an argument that is no str (None)
Str(pieces) == [str |-> TRUE, pieces |-> pieces]
NoneBody == [str |-> FALSE, pieces |-> <<>>]

\* str.splitlines() of the "\n"-joined pieces: a final empty piece is no line
splitlines(b) ==
    IF Len(b) > 0 /\ IsEmpty(b[Len(b)]) THEN SubSeq(b, 1, Len(b) - 1) ELSE b

EmptyLine == Line(FALSE, "", <<>>)

----------------------------------------------------------------------------
(* String helpers, given as tables over the texts the model uses *)

\* str.lower()
lower(s) ==
    CASE s = "Von" -> "von"
      [] s = "Gesendet" -> "gesendet"
      [] s = "To" -> "to"
      [] s = "Datum" -> "datum"
      [] s = "Sent" -> "sent"
      [] s = "Date" -> "date"
      [] s = "Montag" -> "montag"
      [] s = "Dienstag" -> "dienstag"
      [] s = "März" -> "märz"
      [] s = "March" -> "march"
      [] s = "Bottom-Up" -> "bottom-up"
      [] OTHER -> s

\* s without a final dot
undot(s) ==
    CASE s = "janv." -> "janv"
      [] s = "Dez." -> "Dez"
      [] OTHER -> s

\* _norm_token: strip, lower, drop dots, fold diacritics
norm_token(t) ==
    LET l == lower(undot(t))
    IN  CASE l = "märz" -> "maerz"
          [] l = "dez" -> "dez"
          [] l = "." -> ""
          [] OTHER -> l

\* _HEADER_ALIASES (a later duplicate key of the dict literal overrides)
HEADER_ALIASES ==
    [a \in {"from", "von", "absender", "de"} |-> "FROM"] @@
    [a \in {"to", "an", "à", "a", "para"} |-> "TO"] @@
    [a \in {"cc", "kopie", "kopie an"} |-> "CC"] @@
    [a \in {"bcc", "blindkopie", "blindkopie an", "cci", "cco"} |-> "BCC"] @@
    [a \in {"subject", "betreff", "objet", "asunto"} |-> "SUBJECT"] @@
    [a \in {"date", "datum", "fecha"} |-> "DATE"] @@
    [a \in {"sent", "gesendet", "gesendet am", "envoyé", "envoye", "enviado"} |-> "SENT"] @@
    [a \in {"reply-to", "antwort an", "répondre à", "repondre a",
           "responder a"} |-> "REPLY_TO"] @@
    [a \in {"sender", "absenderadresse", "expéditeur", "expediteur",
           "remitente"} |-> "SENDER"]

\* _HEADER_KEYS_PATTERN.match(line): an alias, then a colon, at the line start
HEADER_KEYS_PATTERN(l) == l.key # "" /\ lower(l.key) \in DOMAIN HEADER_ALIASES

\* the words of _compile_calendar_regex, without the optional dot
CAL_WORDS ==
    {"montag", "dienstag", "mittwoch", "donnerstag", "freitag", "samstag",
     "sonntag", "mo", "di", "mi", "do", "fr", "sa", "so",
     "monday", "tuesday", "wednesday", "thursday", "friday", "saturday",
     "sunday", "mon", "tue", "tues", "wed", "thu", "thur", "thurs", "fri",
     "sat", "sun",
     "januar", "februar", "märz", "maerz", "april", "mai", "juni", "juli",
     "august", "september", "oktober", "november", "dezember",
     "jan", "feb", "mrz", "apr", "jun", "jul", "aug", "sep", "sept", "okt",
     "nov", "dez",
     "january", "february", "march", "may", "june", "july", "october",
     "december", "mar", "oct", "dec"}

\* _CAL_RE matches inside the token: a whole word of the list, the optional
\* dot being given back when no word boundary follows it
CAL_RE(t) == t.k = "word" /\ lower(undot(t.s)) \in CAL_WORDS

\* _MONTHS_MAP, the keys a folded token can be equal to
MONTHS_MAP ==
    [n \in {"january", "jan", "januar", "janvier", "janv", "enero", "ene"} |-> 1] @@
    [n \in {"february", "feb", "februar", "fevrier", "fevr", "febrero"} |-> 2] @@
    [n \in {"march", "mar", "maerz", "mrz", "mars", "marzo"} |-> 3] @@
    [n \in {"april", "apr", "avril", "avr", "abril", "abr"} |-> 4] @@
    [n \in {"may", "mai", "mayo"} |-> 5] @@
    [n \in {"june", "jun", "juni", "juin", "junio"} |-> 6] @@
    [n \in {"july", "jul", "juli", "juillet", "juil", "julio"} |-> 7] @@
    [n \in {"august", "aug", "août", "aout", "agosto", "ago"} |-> 8] @@
    [n \in {"september", "sep", "sept", "septembre", "septiembre", "setiembre"} |-> 9] @@
    [n \in {"october", "oct", "oktober", "okt", "octobre", "octubre"} |-> 10] @@
    [n \in {"november", "nov", "novembre", "noviembre"} |-> 11] @@
    [n \in {"december", "dec", "dezember", "dez", "decembre", "diciembre", "dic"} |-> 12]

\* _month_name_to_num
month_name_to_num(name) ==
    LET t == norm_token(name)
    IN  IF t \in DOMAIN MONTHS_MAP THEN MONTHS_MAP[t] ELSE 0

----------------------------------------------------------------------------
(* _extract_visible_text *)

SelectIdx(s, Keep(_)) ==
    LET F[n \in 0..Len(s)] ==
            IF n = 0 THEN <<>>
            ELSE IF Keep(n) THEN Append(F[n - 1], s[n]) ELSE F[n - 1]
    IN  F[Len(s)]

\* re.search(r"<\s*(?:/?[A-Za-z]|!DOCTYPE|!--)", s): a "<" before a letter
HasTagMarker(b) ==
    \E n \in 1..Len(b) : \E t \in 1..Len(b[n].toks) : b[n].toks[t].k = "aemail"

\* <user@example.com> -> user@example.com
UnwrapEmails(l) ==
    [l EXCEPT !.toks = [t \in 1..Len(l.toks) |->
        IF l.toks[t].k = "aemail" THEN Email(l.toks[t].s) ELSE l.toks[t]]]

\* re.sub(r"\n{3,}", "\n\n"): of a run of empty pieces only the first stays
CollapseNewlines(b) ==
    SelectIdx(b, LAMBDA n : ~(n > 1 /\ IsEmpty(b[n]) /\ IsEmpty(b[n - 1])))

\* str.strip() of the joined text
StripText(b) ==
    LET nb == {n \in 1..Len(b) : ~IsBlank(b[n])}
    IN  IF nb = {} THEN <<EmptyLine>>
        ELSE LET lo == CHOOSE n \in nb : \A k \in nb : n <= k
                 hi == CHOOSE n \in nb : \A k \in nb : n >= k
                 cut == SubSeq(b, lo, hi)
             IN  [cut EXCEPT ![1].ind = FALSE]

\* the pieces of the returned string
extract_visible_text(s) ==
    IF ~s.str THEN <<EmptyLine>>
    ELSE IF ~HasTagMarker(s.pieces) THEN s.pieces
    ELSE StripText(CollapseNewlines(
            [n \in 1..Len(s.pieces) |-> UnwrapEmails(s.pieces[n])]))

----------------------------------------------------------------------------
(* _extract_visible_text on a text given character by character.  The      *)
(* characters are the letters "x", "p" and "a" (of which "p" is the name of *)
(* a block tag and "a" the name of the anchor tag), blank, "\n", "\r", "<",  *)
(* ">", "/", the double quote, "@", which stands for one e-mail address     *)
(* such as u@x.de, "href=", the name of the attribute with its equals sign, *)
(* and one URL.  The texts have no "&", "br", "script", "style" nor         *)
(* no-break space, so the substitutions for these find nothing in them.     *)

WS == {" ", "\n", "\r"}
LETTERS == {"x", "p", "a"}
ADDR == "@"
URL == "http://h.example"

\* first position from n on that holds no whitespace (Len(s) + 1: none)
SkipWs(s, n) ==
    CHOOSE k \in n..(Len(s) + 1) :
        /\ k = Len(s) + 1 \/ s[k] \notin WS
        /\ \A q \in n..(k - 1) : s[q] \in WS

\* first position from n on that holds no character of S (Len(s) + 1: none)
RunEnd(s, n, S) ==
    CHOOSE k \in n..(Len(s) + 1) :
        /\ k = Len(s) + 1 \/ s[k] \notin S
        /\ \A q \in n..(k - 1) : s[q] \in S

\* position of the first ">" from n on (0: none)
FirstGt(s, n) ==
    LET g == {k \in n..Len(s) : s[k] = ">"}
    IN  IF g = {} THEN 0 ELSE CHOOSE k \in g : \A q \in g : k <= q

\* re.sub: from left to right, a match of MatchLen(s, n) > 0 characters at n
\* is replaced by Repl(s, n) and the scan goes on behind it
Substitute(s, MatchLen(_, _), Repl(_, _)) ==
    LET F[n \in 1..(Len(s) + 1)] ==
            IF n > Len(s) THEN <<>>
            ELSE IF MatchLen(s, n) > 0 THEN Repl(s, n) \o F[n + MatchLen(s, n)]
            ELSE <<s[n]>> \o F[n + 1]
    IN  F[1]

\* re.search(r"<\s*(?:/?[A-Za-z]|!DOCTYPE|!--)", s)
html_marker(s) ==
    \E n \in 1..Len(s) :
        /\ s[n] = "<"
        /\ LET k == SkipWs(s, n + 1)
               q == IF k <= Len(s) /\ s[k] = "/" THEN k + 1 ELSE k
           IN  q <= Len(s) /\ s[q] \in LETTERS \cup {ADDR, "href=", URL}

\* <\s*(address)\s*>: letters next to the address belong to it
AngleEmailStart(s, n) == SkipWs(s, n + 1)
AngleEmailEnd(s, n) == RunEnd(s, AngleEmailStart(s, n), LETTERS \cup {ADDR})
AngleEmailLen(s, n) ==
    LET k == AngleEmailStart(s, n)
        e == AngleEmailEnd(s, n)
        g == SkipWs(s, e)
    IN  IF /\ s[n] = "<"
           /\ Cardinality({q \in k..(e - 1) : s[q] = ADDR}) = 1
           /\ g <= Len(s)
           /\ s[g] = ">"
        THEN g - n + 1 ELSE 0
AngleEmailGroup(s, n) == SubSeq(s, AngleEmailStart(s, n), AngleEmailEnd(s, n) - 1)
SubAngleEmail(s) == Substitute(s, AngleEmailLen, AngleEmailGroup)

\* </?(p|div|li|tr|td|th|table|h[1-6])[^>]*> becomes "\n"
BlockTagLen(s, n) ==
    LET q == IF n + 1 <= Len(s) /\ s[n + 1] = "/" THEN n + 2 ELSE n + 1
    IN  IF s[n] = "<" /\ q <= Len(s) /\ s[q] = "p" /\ FirstGt(s, q + 1) # 0
        THEN FirstGt(s, q + 1) - n + 1 ELSE 0
Newline(s, n) == <<"\n">>
SubBlockTags(s) == Substitute(s, BlockTagLen, Newline)

\* first position from n on where "</a>" begins (0: none)
FirstClose(s, n) ==
    LET g == {k \in n..(Len(s) - 3) :
                 s[k] = "<" /\ s[k + 1] = "/" /\ s[k + 2] = "a" /\ s[k + 3] = ">"}
    IN  IF g = {} THEN 0 ELSE CHOOSE k \in g : \A q \in g : k <= q

\* <a[^>]*>(.*?)</a> becomes the text between the tags: the opening tag ends
\* at the first ">", the text at the first "</a>" behind it
AnchorTextStart(s, n) == FirstGt(s, n + 2) + 1
AnchorLen(s, n) ==
    IF /\ s[n] = "<"
       /\ n + 1 <= Len(s)
       /\ s[n + 1] = "a"
       /\ FirstGt(s, n + 2) # 0
       /\ FirstClose(s, AnchorTextStart(s, n)) # 0
    THEN FirstClose(s, AnchorTextStart(s, n)) + 4 - n ELSE 0
AnchorText(s, n) ==
    SubSeq(s, AnchorTextStart(s, n), FirstClose(s, AnchorTextStart(s, n)) - 1)
SubAnchors(s) == Substitute(s, AnchorLen, AnchorText)

\* <[^>]+> becomes a blank
TagLen(s, n) ==
    IF s[n] = "<" /\ n + 1 <= Len(s) /\ s[n + 1] # ">" /\ FirstGt(s, n + 2) # 0
    THEN FirstGt(s, n + 2) - n + 1 ELSE 0
Blank(s, n) == <<" ">>
SubTags(s) == Substitute(s, TagLen, Blank)

\* SubCrLf for \r\n only
CrLfPairLen(s, n) == IF s[n] = "\r" /\ n + 1 <= Len(s) /\ s[n + 1] = "\n" THEN 2 ELSE 0
SubCrLfPairs(s) == Substitute(s, CrLfPairLen, Newline)

\* \r\n|\r becomes "\n"
CrLfLen(s, n) ==
    IF s[n] # "\r" THEN 0
    ELSE IF n + 1 <= Len(s) /\ s[n + 1] = "\n" THEN 2 ELSE 1
SubCrLf(s) == Substitute(s, CrLfLen, Newline)

\* [ \t]{2,} becomes one blank
SpacesLen(s, n) ==
    IF s[n] = " " /\ RunEnd(s, n, {" "}) - n >= 2 THEN RunEnd(s, n, {" "}) - n ELSE 0
SubSpaces(s) == Substitute(s, SpacesLen, Blank)

\* \n{3,} becomes "\n\n"
NewlinesLen(s, n) ==
    IF s[n] = "\n" /\ RunEnd(s, n, {"\n"}) - n >= 3 THEN RunEnd(s, n, {"\n"}) - n ELSE 0
TwoNewlines(s, n) == <<"\n", "\n">>
SubNewlines(s) == Substitute(s, NewlinesLen, TwoNewlines)

\* str.strip()
strip(s) ==
    LET nw == {n \in 1..Len(s) : s[n] \notin WS}
    IN  IF nw = {} THEN <<>>
        ELSE SubSeq(s, CHOOSE n \in nw : \A k \in nw : n <= k,
                       CHOOSE n \in nw : \A k \in nw : n >= k)

\* a str argument given by its characters
Chars(c) == [str |-> TRUE, chars |-> c]

\* _extract_visible_text of such an argument, or of one that is no str
extract_visible_text_chars(raw) ==
    IF ~raw.str THEN <<>>
    ELSE IF ~html_marker(raw.chars) THEN raw.chars
    ELSE strip(SubNewlines(SubSpaces(SubCrLf(SubTags(SubAnchors(SubBlockTags(
            SubAngleEmail(raw.chars))))))))

----------------------------------------------------------------------------
(* _try_parse_date.  An ISO string is modelled by the tuple of its fields  *)
(* <<y, mo, d, hh, mm, ss>>, the empty string by NoIso.                     *)

NoIso == <<>>

IsoString(y, mo, d, hh, mm, ss) == <<y, mo, d, hh, mm, ss>>

\* s = _CAL_RE.sub(" ", s); s = re.sub(r",", " ", s)
DateSubstitute(v) ==
    [n \in 1..Len(v) |->
        IF CAL_RE(v[n]) THEN (IF undot(v[n].s) # v[n].s THEN Word(".") ELSE Gap)
        ELSE IF v[n].k = "comma" THEN Gap
        ELSE v[n]]

\* index of the first token after p that is not an extra blank (0: none)
NextTok(s, p) ==
    LET c == {n \in (p + 1)..Len(s) : s[n].k # "sp"}
    IN  IF c = {} THEN 0 ELSE CHOOSE n \in c : \A k \in c : n <= k

FirstIdx(S) == IF S = {} THEN 0 ELSE CHOOSE n \in S : \A k \in S : n <= k

\* (?:\s+(\d{1,2}):(\d{2})(?::(\d{2}))?)? after the token at p
TimeAfter(s, p) ==
    LET q == IF p = 0 THEN 0 ELSE NextTok(s, p)
    IN  IF q # 0 /\ s[q].k = "time" THEN <<s[q].a, s[q].b, s[q].c>> ELSE <<0, 0, 0>>

\* (?:[ T](\d{2}):(\d{2})(?::(\d{2}))?)? after the token at p: one blank
\* only, and a two-digit hour
IsoTimeAfter(s, p) ==
    IF p < Len(s) /\ s[p + 1].k = "time" /\ s[p + 1].a >= 10
    THEN <<s[p + 1].a, s[p + 1].b, s[p + 1].c>> ELSE <<0, 0, 0>>

\* the one or two digits a token ends with, for (\d{1,2})\s+
TailDigits(t) ==
    CASE t.k = "num" -> t.a
      [] t.k = "year" -> t.a % 100
      [] t.k = "time" -> t.b
      [] t.k = "dmy" -> t.c % 100
      [] t.k = "iso" -> t.c
      [] OTHER -> 0

StartsWithYear(t) == t.k \in {"year", "iso"}
YearOf(t) == t.a

\* the four re.search calls of _try_parse_date on the substituted value;
\* p3: a token ending with digits, for (\d{1,2})\s+; p4: a token ending with
\* letters and dots, for ([A-Za-z\.]+)\s+
DatePatterns(s) ==
    LET p1 == FirstIdx({n \in 1..Len(s) : s[n].k = "iso"})
        p2 == FirstIdx({n \in 1..Len(s) : s[n].k = "dmy"})
        p3 == FirstIdx({n \in 1..Len(s) :
                /\ s[n].k \in {"num", "year", "time", "dmy", "iso"}
                /\ NextTok(s, n) # 0
                /\ s[NextTok(s, n)].k = "word"
                /\ NextTok(s, NextTok(s, n)) # 0
                /\ StartsWithYear(s[NextTok(s, NextTok(s, n))])})
        p4 == FirstIdx({n \in 1..Len(s) :
                /\ s[n].k \in {"word", "numdot", "email", "url"}
                /\ NextTok(s, n) # 0
                /\ s[NextTok(s, n)].k = "num"
                /\ NextTok(s, NextTok(s, n)) # 0
                /\ StartsWithYear(s[NextTok(s, NextTok(s, n))])})
        q3 == NextTok(s, p3)
        r3 == NextTok(s, q3)
        q4 == NextTok(s, p4)
        r4 == NextTok(s, q4)
        mon3 == IF p3 = 0 THEN 0 ELSE month_name_to_num(s[q3].s)
        mon4 == IF p4 = 0 THEN 0 ELSE month_name_to_num(
                    IF s[p4].k = "numdot" THEN "." ELSE s[p4].s)
    IN  IF p1 # 0
        THEN LET t == IsoTimeAfter(s, p1)
             IN  IsoString(s[p1].a, s[p1].b, s[p1].c, t[1], t[2], t[3])
        ELSE IF p2 # 0
        THEN LET t == TimeAfter(s, p2)
             IN  IsoString(s[p2].c, s[p2].b, s[p2].a, t[1], t[2], t[3])
        ELSE IF p3 # 0 /\ mon3 # 0
        THEN LET t == TimeAfter(s, r3)
             IN  IsoString(YearOf(s[r3]), mon3, TailDigits(s[p3]), t[1], t[2], t[3])
        ELSE IF p4 # 0 /\ mon4 # 0
        THEN LET t == TimeAfter(s, r4)
             IN  IsoString(YearOf(s[r4]), mon4, s[q4].a, t[1], t[2], t[3])
        ELSE NoIso

try_parse_date(v) == DatePatterns(DateSubstitute(v))

----------------------------------------------------------------------------
(* apply_regexes_per_line *)

\* the tokens of line.strip(); the alias and its colon are its first word
LineToks(l) == IF l.key # "" THEN <<Word(l.key \o ":")>> \o l.toks ELSE l.toks

\* compile_patterns: the order of the dict and what each pattern list matches
PATTERN_KEYS == <<"EMAIL", "URL", "TEL">>

PatternMatches(key, t) ==
    CASE key = "EMAIL" -> t.k \in {"email", "aemail"}
      [] key = "URL" -> t.k = "url"
      [] key = "TEL" -> t.k = "tel"

\* [m.group(0) for m in r.finditer(s)] over a sequence of tokens
FindAll(key, toks) ==
    LET F[n \in 0..Len(toks)] ==
            IF n = 0 THEN <<>>
            ELSE IF PatternMatches(key, toks[n]) THEN Append(F[n - 1], toks[n].s)
            ELSE F[n - 1]
    IN  F[Len(toks)]

\* the dedup loop: first occurrences, in order
Dedup(hits) ==
    SelectIdx(hits, LAMBDA n : \A k \in 1..(n - 1) : hits[k] # hits[n])

\* bool(_CAL_RE.search(line))
calendar_line(l) == \E n \in 1..Len(LineToks(l)) : CAL_RE(LineToks(l)[n])

\* compact_idx when the loop is at line idx: the non-blank lines up to it
CompactIdx(ls, idx) == Cardinality({n \in 1..idx : ~IsBlank(ls[n])})

\* LineHits without the calendar test
LineHitsOnCalendarLines(ls, idx, key) ==
    Dedup(FindAll(key, LineToks(ls[idx])))

\* the hits of one pattern key on line idx (<<>>: none, or TEL suppressed)
LineHits(ls, idx, key) ==
    IF key = "TEL" /\ calendar_line(ls[idx]) THEN <<>>
    ELSE Dedup(FindAll(key, LineToks(ls[idx])))

\* result[key] after the loop over the lines
KeyEntries(ls, key) ==
    LET F[n \in 0..Len(ls)] ==
            IF n = 0 THEN <<>>
            ELSE IF ~IsBlank(ls[n]) /\ LineHits(ls, n, key) # <<>>
            THEN Append(F[n - 1], <<LineHits(ls, n, key), n, CompactIdx(ls, n)>>)
            ELSE F[n - 1]
    IN  F[Len(ls)]

\* an ordered dict is a sequence of <<key, value>> pairs
DictHas(d, key) == \E n \in 1..Len(d) : d[n][1] = key
DictGet(d, key) == d[CHOOSE n \in 1..Len(d) : d[n][1] = key][2]
DictSet(d, key, v) ==
    IF DictHas(d, key)
    THEN [n \in 1..Len(d) |-> IF d[n][1] = key THEN <<key, v>> ELSE d[n]]
    ELSE Append(d, <<key, v>>)

\* {k: v for k, v in result.items() if v}
apply_regexes_per_line(ls) ==
    LET all == [n \in 1..Len(PATTERN_KEYS) |->
                    <<PATTERN_KEYS[n], KeyEntries(ls, PATTERN_KEYS[n])>>]
    IN  SelectIdx(all, LAMBDA n : all[n][2] # <<>>)

----------------------------------------------------------------------------
(* _normalize_triples, flatten_entries, cluster_by_lines,                  *)
(* _normalize_cluster_lines                                                *)

MatchItem(type, values, line, cline) ==
    [type |-> type, values |-> values, line |-> line, cline |-> cline]

\* one entry of a non-HEADER_SEGMENT list: a pair gets cline = line
FixEntry(it) == IF Len(it) = 3 THEN it ELSE <<it[1], it[2], it[2]>>

normalize_triples(pt) ==
    LET fixed == [n \in 1..Len(pt) |->
            IF pt[n][1] = "HEADER_SEGMENT" THEN pt[n]
            ELSE <<pt[n][1],
                   LET its == pt[n][2]
                       ok == SelectIdx(its, LAMBDA k : Len(its[k]) \in {2, 3})
                   IN  [k \in 1..Len(ok) |-> FixEntry(ok[k])]>>]
    IN  SelectIdx(fixed, LAMBDA n : fixed[n][1] = "HEADER_SEGMENT" \/ fixed[n][2] # <<>>)

\* list.sort(key=...) and sorted(): stable; keys[n] is the key of s[n]
StableSort(s, keys) ==
    LET rank(n) == Cardinality({k \in 1..Len(s) :
                        keys[k] < keys[n] \/ (keys[k] = keys[n] /\ k <= n)})
    IN  [r \in 1..Len(s) |-> s[CHOOSE n \in 1..Len(s) : rank(n) = r]]

RECURSIVE Concat(_)
Concat(ss) == IF ss = <<>> THEN <<>> ELSE Head(ss) \o Concat(Tail(ss))

flatten_entries(pt) ==
    LET flat == Concat([n \in 1..Len(pt) |->
                    [k \in 1..Len(pt[n][2]) |->
                        MatchItem(pt[n][1], pt[n][2][k][1], pt[n][2][k][2], pt[n][2][k][3])]])
    IN  StableSort(flat, [n \in 1..Len(flat) |-> flat[n].cline])

\* cluster_by_lines measuring the gap in original lines instead of compact lines
cluster_by_original_lines(entries, gap) ==
    LET F[n \in 0..Len(entries)] ==
            IF n = 0 THEN <<>>
            ELSE LET e == entries[n]
                     new == [start_line |-> e.cline, end_line |-> e.cline, items |-> <<e>>]
                 IN  IF n = 1 THEN <<new>>
                     ELSE LET acc == F[n - 1]
                              current == acc[Len(acc)]
                              last == current.items[Len(current.items)]
                          IN  IF e.line - last.line <= gap
                              THEN [acc EXCEPT ![Len(acc)] =
                                      [current EXCEPT !.end_line = e.cline,
                                                      !.items = Append(@, e)]]
                              ELSE Append(acc, new)
    IN  F[Len(entries)]

\* the loop of cluster_by_lines: acc is clusters with current as last element
cluster_by_lines(entries, gap) ==
    LET F[n \in 0..Len(entries)] ==
            IF n = 0 THEN <<>>
            ELSE LET e == entries[n]
                     new == [start_line |-> e.cline, end_line |-> e.cline, items |-> <<e>>]
                 IN  IF n = 1 THEN <<new>>
                     ELSE LET acc == F[n - 1]
                              current == acc[Len(acc)]
                          IN  IF e.cline - current.end_line <= gap
                              THEN [acc EXCEPT ![Len(acc)] =
                                      [current EXCEPT !.end_line = e.cline,
                                                      !.items = Append(@, e)]]
                              ELSE Append(acc, new)
    IN  F[Len(entries)]

Min(S) == CHOOSE x \in S : \A y \in S : x <= y
Max(S) == CHOOSE x \in S : \A y \in S : x >= y

\* normalize_cluster_lines keeping the compact bounds as start_line and end_line
normalize_cluster_lines_compact(clusters) ==
    [n \in 1..Len(clusters) |->
        LET c == clusters[n]
        IN  IF c.items = <<>> THEN c
            ELSE [start_line |-> c.start_line, end_line |-> c.end_line, items |-> c.items,
                  cstart |-> c.start_line, cend |-> c.end_line]]

normalize_cluster_lines(clusters) ==
    [n \in 1..Len(clusters) |->
        LET c == clusters[n]
            ls == {c.items[k].line : k \in 1..Len(c.items)}
        IN  IF c.items = <<>> THEN c
            ELSE [start_line |-> Min(ls), end_line |-> Max(ls), items |-> c.items,
                  cstart |-> c.start_line, cend |-> c.end_line]]

----------------------------------------------------------------------------
(* The inputs *)

TextLine == Line(FALSE, "", <<Word("Hallo")>>)
FromLine == Line(FALSE, "Von", <<Word("Max"), Tok("aemail", "max@example.com", 0, 0, 0)>>)
SentLine == Line(FALSE, "Gesendet",
                 <<Word("Montag"), Comma, Tok("numdot", "3.", 3, 0, 0), Word("März"),
                   Year("2024", 2024), Time("14:05", 14, 5)>>)
DateLine == Line(FALSE, "Datum",
                 <<Word("Montag"), Comma, Tok("num", "3", 3, 0, 0), Word("agosto"),
                   Year("2024", 2024), Time("9:05", 9, 5)>>)
ContLine == Line(TRUE, "", <<Tel("Tel 030-1234 5678"), Tok("url", "www.x.de", 0, 0, 0)>>)
CalLine == Line(FALSE, "", <<Word("Dienstag"), Tel("030-1234 5678"), Email("b@x.com")>>)

LINES == {EmptyLine, TextLine, FromLine, SentLine, DateLine, ContLine, CalLine,
          Line(TRUE, "To", <<Email("b@x.com"), Comma, Email("b@x.com")>>)}

SeqsUpTo(S, n) == UNION {[1..k -> S] : k \in 1..n}

GAPS == (0 - 1)..MaxGap

\* Texts of two non-blank lines with blank lines between them, and header
\* lines with a date that parses

PAIR_LINES == {TextLine, FromLine, SentLine, DateLine, ContLine, CalLine,
               Line(FALSE, "Sent", <<Word("Dienstag"), Comma, Dmy("04.03.2024", 4, 3, 2024), Time("15:10", 15, 10)>>),
               Line(FALSE, "Date", <<Word("Montag"), Comma, Dmy("99.99.2024", 99, 99, 2024), Time("99:99", 99, 99)>>),
               Line(FALSE, "Date", <<Word("Hallo")>>)}

Blanks(k) == [n \in 1..k |-> EmptyLine]

PAIR_BODIES ==
    {Str(<<a>> \o Blanks(k) \o <<b>>) :
        a \in PAIR_LINES, b \in PAIR_LINES, k \in 0..MaxBlank}

\* Texts whose first line is followed by a continuation line: a header with
\* a wrapped value, blank lines, and a second line
WRAPPED_BODIES ==
    {Str(<<a, ContLine>> \o Blanks(k) \o <<b>>) :
        a \in PAIR_LINES, b \in PAIR_LINES, k \in 0..MaxBlank}

\* the texts: up to MaxChunks pieces, each a character or the tag <p>
RAW_TEXTS ==
    {NoneBody} \cup
    {Chars(Concat(c)) :
        c \in UNION {[1..k -> {<<"x">>, <<" ">>, <<"\n">>, <<"\r">>, <<"<">>, <<">">>, <<ADDR>>,
                              <<"<", "p", ">">>}] :
                        k \in 0..MaxChunks}}

\* the texts with anchors: up to MaxChunks pieces, each a character, a tag
\* <p>, a closing tag </a> or an opening tag <a href="..."> whose href value
\* is the URL, or a value with a ">" in it
ANCHOR_CHUNKS ==
    {<<"x">>, <<" ">>, <<"\n">>, <<"<", "p", ">">>, <<"<", "/", "a", ">">>} \cup
    {<<"<", "a", " ", "href=", "\"">> \o v \o <<"\"", ">">> :
        v \in {<<URL>>, <<"x", ">", URL>>}}
ANCHOR_TEXTS ==
    {Chars(Concat(c)) : c \in UNION {[1..k -> ANCHOR_CHUNKS] : k \in 0..MaxChunks}}

----------------------------------------------------------------------------
(* parse_email_body *)

EmptyDict == [x \in {} |-> <<>>]
Put(d, k, v) == [x \in (DOMAIN d) \cup {k} |-> IF x = k THEN v ELSE d[x]]

NoResult == [strategy |-> "none"]
NoLine == Line(FALSE, "", <<>>)
NoSeg == [seg_start |-> 0, seg_cstart |-> 0, seg_items |-> <<>>, seg_headers |-> EmptyDict]
EmptyHdr == [headers |-> EmptyDict, headers_list |-> <<>>, segments |-> <<>>]

HEADER_KEYS == {"FROM", "TO", "CC", "BCC", "SUBJECT", "DATE", "SENT", "REPLY_TO", "SENDER"}

\* str.upper(), for a key that is no alias
upper(s) == s

norm_key_of(key_raw) ==
    IF lower(key_raw) \in DOMAIN HEADER_ALIASES
    THEN HEADER_ALIASES[lower(key_raw)] ELSE upper(key_raw)

\* a poller that was constructed and not started: IMAPPoller.__init__; no
\* e-mail is being handled
PollerIdle ==
    /\ conn = "None"
    /\ last_seen_uids = {}
    /\ new_uids = <<>>
    /\ uid = 0
    /\ attempt = 0
    /\ unseen = {}
    /\ fetchable = {}
    /\ link = "up"
    /\ fetched = <<>>
    /\ handled = <<>>
    /\ filtered = {}
PipelineIdle ==
    /\ data = {}
    /\ step = 0
    /\ res = [mod |-> "", kind |-> "none"]
WorkerIdle == raised = "" /\ PollerIdle /\ PipelineIdle

Init ==
    /\ body \in {NoneBody} \cup {Str(b) : b \in SeqsUpTo(LINES, MaxLines)}
    /\ max_gap \in GAPS
    /\ strategy \in {"bottom-up", "top-down", "Bottom-Up", "", "newest"}
    /\ pc = "start"
    /\ text = <<>>
    /\ lines = <<>>
    /\ i = 0
    /\ j = 0
    /\ compact_idx = 0
    /\ m = NoLine
    /\ value = <<>>
    /\ seg = NoSeg
    /\ hdr = EmptyHdr
    /\ per_type = <<>>
    /\ all_clusters = <<>>
    /\ selected = <<>>
    /\ result = NoResult
    /\ WorkerIdle

\* lines 374-376 and the first lines of parse_header_block
ExtractVisibleText ==
    /\ pc = "start"
    /\ LET b == IF ~body.str THEN Str(<<EmptyLine>>) ELSE body
           t == extract_visible_text(b)
       IN  /\ text' = t
           /\ lines' = splitlines(t)
    /\ i' = 0
    /\ compact_idx' = 0
    /\ hdr' = EmptyHdr
    /\ pc' = "hdr_outer"
    /\ UNCHANGED <<raised, pollerVars, pipelineVars, body, max_gap, strategy, j, m, value, seg, per_type,
                   all_clusters, selected, result>>

\* outer loop of parse_header_block, the line is no header: lines 188-196
HdrSkip ==
    /\ pc = "hdr_outer"
    /\ i < Len(lines)
    /\ ~HEADER_KEYS_PATTERN(lines[i + 1])
    /\ compact_idx' = IF ~IsBlank(lines[i + 1]) THEN compact_idx + 1 ELSE compact_idx
    /\ i' = i + 1
    /\ UNCHANGED <<raised, pollerVars, pipelineVars, body, max_gap, strategy, pc, text, lines, j, m, value, seg,
                   hdr, per_type, all_clusters, selected, result>>

\* outer loop, the line is a header: lines 188-207
HdrOpen ==
    /\ pc = "hdr_outer"
    /\ i < Len(lines)
    /\ HEADER_KEYS_PATTERN(lines[i + 1])
    /\ LET c == IF ~IsBlank(lines[i + 1]) THEN compact_idx + 1 ELSE compact_idx
       IN  /\ compact_idx' = c
           /\ seg' = [seg_start |-> i, seg_cstart |-> c, seg_items |-> <<>>,
                      seg_headers |-> EmptyDict]
    /\ m' = lines[i + 1]
    /\ value' = lines[i + 1].toks
    /\ j' = i + 1
    /\ pc' = "hdr_cont"
    /\ UNCHANGED <<raised, pollerVars, pipelineVars, body, max_gap, strategy, text, lines, i, hdr, per_type,
                   all_clusters, selected, result>>

\* the test of the continuation loop: lines 208-212
IsContinuation(l) == ~IsBlank(l) /\ l.ind

\* one absorbed continuation line: lines 208-215
HdrContinuation ==
    /\ pc = "hdr_cont"
    /\ j < Len(lines)
    /\ IsContinuation(lines[j + 1])
    /\ value' = value \o LineToks(lines[j + 1])
    /\ j' = j + 1
    /\ UNCHANGED <<raised, pollerVars, pipelineVars, body, max_gap, strategy, pc, text, lines, i, compact_idx, m,
                   seg, hdr, per_type, all_clusters, selected, result>>

\* seg_headers / headers after one header: lines 222-226 and 234-238
RecordHeader(d, norm_key, v) ==
    LET d1 == Put(d, norm_key, v)
    IN  IF norm_key \in {"DATE", "SENT"} /\ try_parse_date(v) # NoIso
        THEN Put(d1, norm_key \o "_ISO", try_parse_date(v)) ELSE d1

RecordGlobal(d, norm_key, v) ==
    LET d1 == IF norm_key \in {"DATE", "SENT"} /\ try_parse_date(v) # NoIso
              THEN Put(d, norm_key \o "_ISO", try_parse_date(v)) ELSE d
    IN  Put(d1, norm_key, v)

\* CloseSegment with the segment ending at the line that follows it
CloseSegmentEndsAtNext(sg, ls, idx) ==
    LET seg_end == IF idx > sg.seg_start THEN idx - 1 ELSE idx
        cend == sg.seg_cstart +
                Cardinality({k \in (sg.seg_start + 1)..seg_end : ~IsBlank(ls[k + 1])})
    IN  [start_line |-> sg.seg_start + 1,
         end_line |-> idx + 1,
         cstart |-> sg.seg_cstart,
         cend |-> cend,
         keys |-> {sg.seg_items[k].normalized_key : k \in 1..Len(sg.seg_items)},
         headers |-> sg.seg_headers,
         entries |-> sg.seg_items]

\* lines 255-270
CloseSegment(sg, ls, idx) ==
    LET seg_end == IF idx > sg.seg_start THEN idx - 1 ELSE idx
        cend == sg.seg_cstart +
                Cardinality({k \in (sg.seg_start + 1)..seg_end : ~IsBlank(ls[k + 1])})
    IN  [start_line |-> sg.seg_start + 1,
         end_line |-> seg_end + 1,
         cstart |-> sg.seg_cstart,
         cend |-> cend,
         keys |-> {sg.seg_items[k].normalized_key : k \in 1..Len(sg.seg_items)},
         headers |-> sg.seg_headers,
         entries |-> sg.seg_items]

\* the value is complete: lines 220-253, and 255-270 when the segment ends
HdrRecord ==
    /\ pc = "hdr_cont"
    /\ ~(j < Len(lines) /\ IsContinuation(lines[j + 1]))
    /\ LET key_raw == m.key
           norm_key == norm_key_of(key_raw)
           ent == [key |-> key_raw, normalized_key |-> norm_key,
                   value |-> value, line |-> i + 1]
           sg == [seg EXCEPT !.seg_headers = RecordHeader(@, norm_key, value),
                             !.seg_items = Append(@, ent)]
           h == [hdr EXCEPT !.headers = RecordGlobal(@, norm_key, value),
                            !.headers_list = Append(@, ent)]
       IN  /\ i' = j
           /\ IF j >= Len(lines) \/ ~HEADER_KEYS_PATTERN(lines[j + 1])
              THEN /\ hdr' = [h EXCEPT !.segments = Append(@, CloseSegment(sg, lines, j))]
                   /\ seg' = sg
                   /\ pc' = "hdr_outer"
                   /\ UNCHANGED <<m, value, j, compact_idx>>
              ELSE /\ hdr' = h
                   /\ seg' = sg
                   /\ m' = lines[j + 1]
                   /\ compact_idx' = IF ~IsBlank(lines[j + 1]) THEN compact_idx + 1
                                     ELSE compact_idx
                   /\ value' = lines[j + 1].toks
                   /\ j' = j + 1
                   /\ pc' = "hdr_cont"
    /\ UNCHANGED <<raised, pollerVars, pipelineVars, body, max_gap, strategy, text, lines, per_type,
                   all_clusters, selected, result>>

\* parse_header_block returns: line 271
HdrReturn ==
    /\ pc = "hdr_outer"
    /\ i >= Len(lines)
    /\ pc' = "regex"
    /\ UNCHANGED <<raised, pollerVars, pipelineVars, body, max_gap, strategy, text, lines, i, j, compact_idx, m,
                   value, seg, hdr, per_type, all_clusters, selected, result>>

\* lines 378-379
ApplyRegexes ==
    /\ pc = "regex"
    /\ per_type' = apply_regexes_per_line(lines)
    /\ pc' = "cluster"
    /\ UNCHANGED <<raised, pollerVars, pipelineVars, body, max_gap, strategy, text, lines, i, j, compact_idx, m,
                   value, seg, hdr, all_clusters, selected, result>>

\* lines 380-387: the e-mail addresses of the header values
AddHeaderEmails(pt, headers_list) ==
    LET pt0 == IF DictHas(pt, "EMAIL") THEN pt ELSE DictSet(pt, "EMAIL", <<>>)
        F[n \in 0..Len(headers_list)] ==
            IF n = 0 THEN DictGet(pt0, "EMAIL")
            ELSE LET emails == FindAll("EMAIL", headers_list[n].value)
                 IN  IF emails # <<>>
                     THEN Append(F[n - 1], <<emails, headers_list[n].line>>)
                     ELSE F[n - 1]
    IN  DictSet(pt0, "EMAIL", F[Len(headers_list)])

\* lines 388-392
AddHeaderSegments(pt, segments) ==
    LET pt0 == IF DictHas(pt, "HEADER_SEGMENT") THEN pt
               ELSE DictSet(pt, "HEADER_SEGMENT", <<>>)
    IN  DictSet(pt0, "HEADER_SEGMENT",
                DictGet(pt0, "HEADER_SEGMENT") \o
                [n \in 1..Len(segments) |-> <<segments[n].keys, segments[n].start_line>>])

\* lines 399-414
HeaderCluster(sg) ==
    [start_line |-> sg.start_line,
     end_line |-> sg.end_line,
     items |-> [k \in 1..Len(sg.entries) |->
                    MatchItem(sg.entries[k].normalized_key, <<sg.entries[k].value>>,
                              sg.entries[k].line, sg.entries[k].line)]]

header_clusters_of(segments) == [n \in 1..Len(segments) |-> HeaderCluster(segments[n])]

\* lines 396-398
body_clusters_of(pt, gap) ==
    normalize_cluster_lines(cluster_by_lines(
        flatten_entries(SelectIdx(pt, LAMBDA n : pt[n][1] # "HEADER_SEGMENT")), gap))

\* MergeClusters without the sort
MergeClustersUnsorted(bc, hc) == bc \o hc

\* line 416
MergeClusters(bc, hc) ==
    LET both == bc \o hc
    IN  StableSort(both, [n \in 1..Len(both) |-> both[n].start_line])

\* lines 380-423
BuildClusters ==
    /\ pc = "cluster"
    /\ LET pt == normalize_triples(
                    AddHeaderSegments(AddHeaderEmails(per_type, hdr.headers_list),
                                      hdr.segments))
           ac == MergeClusters(body_clusters_of(pt, max_gap),
                               header_clusters_of(hdr.segments))
       IN  /\ per_type' = pt
           /\ all_clusters' = ac
           /\ IF lower(IF strategy = "" THEN "bottom-up" ELSE strategy) = "bottom-up"
              THEN /\ selected' = <<>>
                   /\ i' = Len(ac) - 1
                   /\ pc' = IF Len(ac) - 1 >= 0 THEN "walk" ELSE "window"
              ELSE /\ pc' = "top_down"
                   /\ UNCHANGED <<selected, i>>
    /\ UNCHANGED <<raised, pollerVars, pipelineVars, body, max_gap, strategy, text, lines, j, compact_idx, m,
                   value, seg, hdr, result>>

\* line 429
IsHeaderCluster(c) == \E k \in 1..Len(c.items) : c.items[k].type \in HEADER_KEYS

\* WalkStep without the decrement of i
WalkStepStuck ==
    /\ pc = "walk"
    /\ IF i + 1 > Len(all_clusters)
       THEN /\ pc' = "raised"
            /\ UNCHANGED <<selected, i>>
       ELSE LET c == all_clusters[i + 1]
            IN  /\ selected' = Append(selected, c)
                /\ IF IsHeaderCluster(c)
                   THEN /\ pc' = "window"
                        /\ UNCHANGED i
                   ELSE /\ i' = i
                        /\ pc' = IF i - 1 >= 0 THEN "walk" ELSE "window"
    /\ UNCHANGED <<raised, pollerVars, pipelineVars, body, max_gap, strategy, text, lines, j, compact_idx, m,
                   value, seg, hdr, per_type, all_clusters, result>>

\* WalkStep leaving the boundary cluster out of the selection
WalkStepExcludesBoundary ==
    /\ pc = "walk"
    /\ IF i + 1 > Len(all_clusters)
       THEN /\ pc' = "raised"
            /\ UNCHANGED <<selected, i>>
       ELSE LET c == all_clusters[i + 1]
            IN  IF IsHeaderCluster(c)
                THEN /\ pc' = "window"
                     /\ UNCHANGED <<selected, i>>
                ELSE /\ selected' = Append(selected, c)
                     /\ i' = i - 1
                     /\ pc' = IF i - 1 >= 0 THEN "walk" ELSE "window"
    /\ UNCHANGED <<raised, pollerVars, pipelineVars, body, max_gap, strategy, text, lines, j, compact_idx, m,
                   value, seg, hdr, per_type, all_clusters, result>>

\* one iteration of the bottom-up walk: lines 425-431
WalkStep ==
    /\ pc = "walk"
    /\ IF i + 1 > Len(all_clusters)
       THEN /\ pc' = "raised"
            /\ UNCHANGED <<selected, i>>
       ELSE LET c == all_clusters[i + 1]
            IN  /\ selected' = Append(selected, c)
                /\ IF IsHeaderCluster(c)
                   THEN /\ pc' = "window"
                        /\ UNCHANGED i
                   ELSE /\ i' = i - 1
                        /\ pc' = IF i - 1 >= 0 THEN "walk" ELSE "window"
    /\ UNCHANGED <<raised, pollerVars, pipelineVars, body, max_gap, strategy, text, lines, j, compact_idx, m,
                   value, seg, hdr, per_type, all_clusters, result>>

\* body_window_of with the slice starting one line too low
body_window_skips_first(sel, lines_all) ==
    LET last_appended == sel[Len(sel)]
        cut_start_line == IF sel # <<>> /\ IsHeaderCluster(last_appended)
                          THEN last_appended.start_line ELSE 0
        start_idx == cut_start_line
        nb == {k \in (start_idx + 1)..Len(lines_all) : ~IsBlank(lines_all[k])}
    IN  IF nb = {}
        THEN [start_line |-> 0, end_line |-> 0, text |-> <<>>]
        ELSE [start_line |-> Min(nb),
              end_line |-> Len(lines_all),
              text |-> SubSeq(lines_all, Min(nb), Max(nb))]

\* body_window_of without the loop that pops the trailing blank lines
body_window_untrimmed(sel, lines_all) ==
    LET last_appended == sel[Len(sel)]
        cut_start_line == IF sel # <<>> /\ IsHeaderCluster(last_appended)
                          THEN last_appended.start_line ELSE 0
        start_idx == IF cut_start_line > 0 THEN cut_start_line - 1 ELSE 0
        nb == {k \in (start_idx + 1)..Len(lines_all) : ~IsBlank(lines_all[k])}
    IN  IF nb = {}
        THEN [start_line |-> 0, end_line |-> 0, text |-> <<>>]
        ELSE [start_line |-> Min(nb),
              end_line |-> Len(lines_all),
              text |-> SubSeq(lines_all, Min(nb), Len(lines_all))]

\* body_window_of with end_line set whether or not the slice is empty
body_window_end_always(sel, lines_all) ==
    LET last_appended == sel[Len(sel)]
        cut_start_line == IF sel # <<>> /\ IsHeaderCluster(last_appended)
                          THEN last_appended.start_line ELSE 0
        start_idx == IF cut_start_line > 0 THEN cut_start_line - 1 ELSE 0
        nb == {k \in (start_idx + 1)..Len(lines_all) : ~IsBlank(lines_all[k])}
    IN  IF nb = {}
        THEN [start_line |-> 0, end_line |-> Len(lines_all), text |-> <<>>]
        ELSE [start_line |-> Min(nb),
              end_line |-> Len(lines_all),
              text |-> SubSeq(lines_all, Min(nb), Max(nb))]

\* lines 434-467
body_window_of(sel, lines_all) ==
    LET last_appended == sel[Len(sel)]
        cut_start_line == IF sel # <<>> /\ IsHeaderCluster(last_appended)
                          THEN last_appended.start_line ELSE 0
        start_idx == IF cut_start_line > 0 THEN cut_start_line - 1 ELSE 0
        nb == {k \in (start_idx + 1)..Len(lines_all) : ~IsBlank(lines_all[k])}
    IN  IF nb = {}
        THEN [start_line |-> 0, end_line |-> 0, text |-> <<>>]
        ELSE [start_line |-> Min(nb),
              end_line |-> Len(lines_all),
              text |-> SubSeq(lines_all, Min(nb), Max(nb))]

\* lines 432-470
BodyWindow ==
    /\ pc = "window"
    /\ result' = [clusters |-> [n \in 1..Len(selected) |->
                                 selected[Len(selected) + 1 - n]],
                  strategy |-> "bottom-up",
                  body_window |-> body_window_of(selected, lines)]
    /\ pc' = "done"
    /\ UNCHANGED <<raised, pollerVars, pipelineVars, body, max_gap, strategy, text, lines, i, j, compact_idx, m,
                   value, seg, hdr, per_type, all_clusters, selected>>

\* lines 471-472
ReturnTopDown ==
    /\ pc = "top_down"
    /\ result' = [clusters |-> all_clusters, strategy |-> "top-down"]
    /\ pc' = "done"
    /\ UNCHANGED <<raised, pollerVars, pipelineVars, body, max_gap, strategy, text, lines, i, j, compact_idx, m,
                   value, seg, hdr, per_type, all_clusters, selected>>

Next ==
    \/ ExtractVisibleText
    \/ HdrSkip
    \/ HdrOpen
    \/ HdrContinuation
    \/ HdrRecord
    \/ HdrReturn
    \/ ApplyRegexes
    \/ BuildClusters
    \/ WalkStep
    \/ BodyWindow
    \/ ReturnTopDown

Spec == Init /\ [][Next]_vars

\* the calls on the two-line texts
InitPairs ==
    /\ body \in PAIR_BODIES
    /\ max_gap \in GAPS
    /\ strategy \in {"bottom-up", "top-down"}
    /\ pc = "start"
    /\ text = <<>>
    /\ lines = <<>>
    /\ i = 0
    /\ j = 0
    /\ compact_idx = 0
    /\ m = NoLine
    /\ value = <<>>
    /\ seg = NoSeg
    /\ hdr = EmptyHdr
    /\ per_type = <<>>
    /\ all_clusters = <<>>
    /\ selected = <<>>
    /\ result = NoResult
    /\ WorkerIdle

SpecPairs == InitPairs /\ [][Next]_vars

\* parse_email_body on the texts of WRAPPED_BODIES
InitWrapped ==
    /\ body \in WRAPPED_BODIES
    /\ max_gap \in GAPS
    /\ strategy \in {"bottom-up", "top-down"}
    /\ pc = "start"
    /\ text = <<>>
    /\ lines = <<>>
    /\ i = 0
    /\ j = 0
    /\ compact_idx = 0
    /\ m = NoLine
    /\ value = <<>>
    /\ seg = NoSeg
    /\ hdr = EmptyHdr
    /\ per_type = <<>>
    /\ all_clusters = <<>>
    /\ selected = <<>>
    /\ result = NoResult
    /\ WorkerIdle

SpecWrapped == InitWrapped /\ [][Next]_vars

\* the calls of _extract_visible_text alone, on the texts of RAW_TEXTS
InitNormalizer ==
    /\ body \in RAW_TEXTS
    /\ max_gap = 1
    /\ strategy = "bottom-up"
    /\ pc = "raw"
    /\ text = <<>>
    /\ lines = <<>>
    /\ i = 0
    /\ j = 0
    /\ compact_idx = 0
    /\ m = NoLine
    /\ value = <<>>
    /\ seg = NoSeg
    /\ hdr = EmptyHdr
    /\ per_type = <<>>
    /\ all_clusters = <<>>
    /\ selected = <<>>
    /\ result = NoResult
    /\ WorkerIdle

\* lines 152-177
Normalize ==
    /\ pc = "raw"
    /\ text' = extract_visible_text_chars(body)
    /\ pc' = "visible"
    /\ UNCHANGED <<raised, pollerVars, pipelineVars, body, max_gap, strategy, lines, i, j, compact_idx, m, value,
                   seg, hdr, per_type, all_clusters, selected, result>>

NextNormalizer == Normalize

SpecNormalizer == InitNormalizer /\ [][NextNormalizer]_vars

\* the calls of _extract_visible_text alone, on the texts of ANCHOR_TEXTS
InitAnchors ==
    /\ body \in ANCHOR_TEXTS
    /\ max_gap = 1
    /\ strategy = "bottom-up"
    /\ pc = "raw"
    /\ text = <<>>
    /\ lines = <<>>
    /\ i = 0
    /\ j = 0
    /\ compact_idx = 0
    /\ m = NoLine
    /\ value = <<>>
    /\ seg = NoSeg
    /\ hdr = EmptyHdr
    /\ per_type = <<>>
    /\ all_clusters = <<>>
    /\ selected = <<>>
    /\ result = NoResult
    /\ WorkerIdle

SpecAnchors == InitAnchors /\ [][NextNormalizer]_vars

----------------------------------------------------------------------------
(* IMAPPoller, src/src/imap_worker.py.  The mail server is the environment: *)
(* it receives messages with the UIDs 1..MaxUids, which stay UNSEEN (the    *)
(* fetch uses BODY.PEEK); the fetch of a message can fail for a while, and  *)
(* the server can be out of reach for a while.  connect and noop succeed    *)
(* exactly when the server can be reached.                                  *)

UIDS == 1..MaxUids

\* range(5) of safe_reconnect
RECONNECT_TRIES == 5

\* no parse_email_body call is going on
ParserIdle ==
    /\ body = NoneBody
    /\ max_gap = 1
    /\ strategy = "bottom-up"
    /\ text = <<>>
    /\ lines = <<>>
    /\ i = 0
    /\ j = 0
    /\ compact_idx = 0
    /\ m = NoLine
    /\ value = <<>>
    /\ seg = NoSeg
    /\ hdr = EmptyHdr
    /\ per_type = <<>>
    /\ all_clusters = <<>>
    /\ selected = <<>>
    /\ result = NoResult

\* IMAPPoller() before loop is called, and a mail server in any state
InitPoller ==
    /\ pc = "loop"
    /\ raised = ""
    /\ ParserIdle
    /\ PipelineIdle
    /\ conn = "None"
    /\ last_seen_uids = {}
    /\ new_uids = <<>>
    /\ uid = 0
    /\ attempt = 0
    /\ unseen \in SUBSET UIDS
    /\ fetchable \in SUBSET UIDS
    /\ link \in {"up", "down"}
    /\ fetched = [u \in UIDS |-> 0]
    /\ handled = [u \in UIDS |-> 0]
    /\ filtered = {}

\* data[0].split() of the search response: the UIDs of S in ascending order
SearchResponse(S) ==
    LET F[T \in SUBSET S] ==
            IF T = {} THEN <<>>
            ELSE LET x == CHOOSE x \in T : \A y \in T : x <= y
                 IN  <<x>> \o F[T \ {x}]
    IN  F[S]

\* new_uids_of without the test against _last_seen_uids
new_uids_unfiltered(uids, seen) == uids

\* line 87: [u for u in uids if u not in self._last_seen_uids]
new_uids_of(uids, seen) == SelectIdx(uids, LAMBDA n : uids[n] \notin seen)

\* lines 133-135: loop connects if there is no connection
Connect ==
    /\ pc = "loop"
    /\ IF conn # "None"
       THEN /\ pc' = "refresh"
            /\ UNCHANGED <<conn, raised>>
       ELSE IF link = "up"
       THEN /\ conn' = "IMAP4_SSL"
            /\ pc' = "refresh"
            /\ UNCHANGED raised
       ELSE /\ raised' = "connect"
            /\ pc' = "finally"
            /\ UNCHANGED conn
    /\ UNCHANGED <<last_seen_uids, new_uids, uid, attempt, unseen, fetchable,
                   link, fetched, handled, filtered, parserVars, pipelineVars>>

\* line 137, _refresh_auth_if_needed: a failed noop starts safe_reconnect,
\* which logs out first
RefreshAuth ==
    /\ pc = "refresh"
    /\ IF link = "up"
       THEN /\ pc' = "search"
            /\ UNCHANGED <<conn, attempt>>
       ELSE /\ conn' = "None"
            /\ attempt' = 0
            /\ pc' = "reconnect"
    /\ UNCHANGED <<raised, last_seen_uids, new_uids, uid, unseen, fetchable,
                   link, fetched, handled, filtered, parserVars, pipelineVars>>

\* one pass of the loop of safe_reconnect: lines 62-67
ReconnectTry ==
    /\ pc = "reconnect"
    /\ attempt < RECONNECT_TRIES
    /\ IF link = "up"
       THEN /\ conn' = "IMAP4_SSL"
            /\ pc' = "search"
            /\ UNCHANGED attempt
       ELSE /\ attempt' = attempt + 1
            /\ UNCHANGED <<conn, pc>>
    /\ UNCHANGED <<raised, last_seen_uids, new_uids, uid, unseen, fetchable,
                   link, fetched, handled, filtered, parserVars, pipelineVars>>

\* line 68: safe_reconnect gives up, the exception leaves loop
ReconnectFailed ==
    /\ pc = "reconnect"
    /\ attempt = RECONNECT_TRIES
    /\ raised' = "reconnect"
    /\ pc' = "finally"
    /\ UNCHANGED <<pollerVars, parserVars, pipelineVars>>

\* line 138, fetch_unseen_uids (lines 80-90): the search raises when the
\* server is out of reach, returns [] when the answer is not OK, and else
\* the UIDs that are not in _last_seen_uids, which it adds to that set
FetchUnseenUids ==
    /\ pc = "search"
    /\ IF link = "down"
       THEN /\ raised' = "search"
            /\ pc' = "finally"
            /\ UNCHANGED <<new_uids, last_seen_uids, filtered>>
       ELSE \E typ \in {"OK", "NO"} :
            IF typ # "OK"
            THEN /\ new_uids' = <<>>
                 /\ pc' = "for"
                 /\ UNCHANGED <<raised, last_seen_uids, filtered>>
            ELSE LET uids == SearchResponse(unseen)
                     nu == new_uids_of(uids, last_seen_uids)
                 IN  /\ new_uids' = nu
                     /\ last_seen_uids' = last_seen_uids \cup {nu[n] : n \in 1..Len(nu)}
                     /\ filtered' = filtered \cup (unseen \cap last_seen_uids)
                     /\ pc' = "for"
                     /\ UNCHANGED raised
    /\ UNCHANGED <<conn, uid, attempt, unseen, fetchable, link, fetched,
                   handled, parserVars, pipelineVars>>

\* lines 138-143: the next UID of the for loop and fetch_email_by_uid
\* (lines 92-130); a failed fetch is skipped with continue
FetchEmailByUid ==
    /\ pc = "for"
    /\ new_uids # <<>>
    /\ uid' = Head(new_uids)
    /\ new_uids' = Tail(new_uids)
    /\ fetched' = [fetched EXCEPT ![Head(new_uids)] = @ + 1]
    /\ pc' = IF link = "up" /\ Head(new_uids) \in fetchable THEN "handle" ELSE "for"
    /\ UNCHANGED <<raised, conn, last_seen_uids, attempt, unseen, fetchable,
                   link, handled, filtered, parserVars, pipelineVars>>

\* lines 144-145: parse_email and the handler; its exception leaves loop
Handle ==
    /\ pc = "handle"
    /\ handled' = [handled EXCEPT ![uid] = @ + 1]
    /\ \E outcome \in {"returned", "raised"} :
          IF outcome = "returned"
          THEN /\ pc' = "for"
               /\ UNCHANGED raised
          ELSE /\ raised' = "handler"
               /\ pc' = "finally"
    /\ UNCHANGED <<conn, last_seen_uids, new_uids, uid, attempt, unseen,
                   fetchable, link, fetched, filtered, parserVars, pipelineVars>>

\* the for loop is through
EndOfCycle ==
    /\ pc = "for"
    /\ new_uids = <<>>
    /\ pc' = "sleep"
    /\ UNCHANGED <<raised, pollerVars, parserVars, pipelineVars>>

\* line 146: time.sleep(POLL_INTERVAL)
Sleep ==
    /\ pc = "sleep"
    /\ pc' = "refresh"
    /\ UNCHANGED <<raised, pollerVars, parserVars, pipelineVars>>

\* lines 147-148: finally safe_logout (lines 70-78)
Finally ==
    /\ pc = "finally"
    /\ conn' = "None"
    /\ pc' = "exited"
    /\ UNCHANGED <<raised, last_seen_uids, new_uids, uid, attempt, unseen,
                   fetchable, link, fetched, handled, filtered, parserVars,
                   pipelineVars>>

\* the mail server receives the message with UID u
Deliver(u) ==
    /\ u \notin unseen
    /\ unseen' = unseen \cup {u}
    /\ UNCHANGED <<pc, raised, conn, last_seen_uids, new_uids, uid, attempt,
                   fetchable, link, fetched, handled, filtered, parserVars,
                   pipelineVars>>

\* the fetch of the message with UID u begins or ceases to fail
FetchChanges(u) ==
    /\ fetchable' = IF u \in fetchable THEN fetchable \ {u} ELSE fetchable \cup {u}
    /\ UNCHANGED <<pc, raised, conn, last_seen_uids, new_uids, uid, attempt,
                   unseen, link, fetched, handled, filtered, parserVars,
                   pipelineVars>>

\* the mail server gets out of reach or comes back
LinkChanges ==
    /\ link' = IF link = "up" THEN "down" ELSE "up"
    /\ UNCHANGED <<pc, raised, conn, last_seen_uids, new_uids, uid, attempt,
                   unseen, fetchable, fetched, handled, filtered, parserVars,
                   pipelineVars>>

NextPoller ==
    \/ Connect
    \/ RefreshAuth
    \/ ReconnectTry
    \/ ReconnectFailed
    \/ FetchUnseenUids
    \/ FetchEmailByUid
    \/ Handle
    \/ EndOfCycle
    \/ Sleep
    \/ Finally
    \/ \E u \in UIDS : Deliver(u)
    \/ \E u \in UIDS : FetchChanges(u)
    \/ LinkChanges

SpecPoller == InitPoller /\ [][NextPoller]_vars

----------------------------------------------------------------------------
(* handle_email, src/src/main.py.  A dict is modelled by the set of its     *)
(* keys.  A pipeline module gets the dict itself and writes into it; what   *)
(* its process function does depends on the services it calls (the prompt   *)
(* file and the LLM, spaCy, the extractors, the web), here the outcome o.   *)
(* A call gives the pair of what it returned or raised and of the dict it   *)
(* was given as it is after the call.                                       *)

ReturnedDict(keys) == [kind |-> "dict", keys |-> keys]
RaisedException == [kind |-> "raised"]

\* ai_email_parser.process: an exception can come from the calls before the
\* first write (reading the prompt file, lines 130-149); failures of the LLM
\* or of the JSON parse are caught, recorded in data, and data is returned
ai_email_parser_process(p, o) ==
    CASE o = "raise" -> [res |-> RaisedException, payload |-> p]
      [] o = "error" ->
            LET q == p \cup {"signature_error", "signature", "llm_debug"}
            IN  [res |-> ReturnedDict(q), payload |-> q]
      [] o = "ok" ->
            LET q == p \cup {"signature", "llm_debug"}
            IN  [res |-> ReturnedDict(q), payload |-> q]

\* ai_spacy_ner_email_parser.process: attach_to_data writes into a copy
ai_spacy_ner_email_parser_process(p, o) ==
    CASE o = "raise" -> [res |-> RaisedException, payload |-> p]
      [] o \in {"error", "ok"} ->
            [res |-> ReturnedDict(p \cup {"spacy_ner_entities"}), payload |-> p]

\* ai_extract_crm.process with data.setdefault ahead of extract_email_data
ai_extract_crm_process_writes_first(p, o) ==
    CASE o = "raise" -> [res |-> RaisedException, payload |-> p \cup {"ai_extract_crm"}]
      [] o \in {"error", "ok"} ->
            LET q == p \cup {"ai_extract_crm"}
            IN  [res |-> ReturnedDict(q), payload |-> q]

\* ai_extract_crm.process: reading the body and extract_email_data (lines
\* 348-363) come before the first write, data.setdefault (line 375)
ai_extract_crm_process(p, o) ==
    CASE o = "raise" -> [res |-> RaisedException, payload |-> p]
      [] o \in {"error", "ok"} ->
            LET q == p \cup {"ai_extract_crm"}
            IN  [res |-> ReturnedDict(q), payload |-> q]

\* ai_predict_intention.process: _init, extract_bodies and the prompt come
\* before the first write; a failure of the LLM is caught and recorded
ai_predict_intention_process(p, o) ==
    IF "klassifikation" \in p THEN [res |-> ReturnedDict(p), payload |-> p]
    ELSE CASE o = "raise" -> [res |-> RaisedException, payload |-> p]
           [] o = "error" ->
                 LET q == p \cup {"klassifikation"}
                 IN  [res |-> ReturnedDict(q), payload |-> q]
           [] o = "ok" ->
                 LET q == p \cup {"klassifikation_raw", "klassifikation"}
                 IN  [res |-> ReturnedDict(q), payload |-> q]

\* ai_web.process: the websites are analysed before the only write
ai_web_process(p, o) ==
    CASE o = "raise" -> [res |-> RaisedException, payload |-> p]
      [] o \in {"error", "ok"} ->
            LET q == p \cup {"ai_web"}
            IN  [res |-> ReturnedDict(q), payload |-> q]

\* lines 40-44
STEPS == <<"ai_email_parser", "ai_spacy_ner_email_parser", "ai_extract_crm",
           "ai_predict_intention", "ai_web">>


\* mod.process(payload, email)
process(mod, p, o) ==
    CASE mod = "ai_email_parser" -> ai_email_parser_process(p, o)
      [] mod = "ai_spacy_ner_email_parser" -> ai_spacy_ner_email_parser_process(p, o)
      [] mod = "ai_extract_crm" -> ai_extract_crm_process(p, o)
      [] mod = "ai_predict_intention" -> ai_predict_intention_process(p, o)
      [] mod = "ai_web" -> ai_web_process(p, o)

\* lines 30-37: r is what mod.process returned or raised, payload the dict
\* it was given
run_step(r, payload) ==
    IF r.kind = "dict" /\ r.keys # {} THEN r.keys ELSE payload

\* handle_email is called with an e-mail
InitPipeline ==
    /\ pc = "handle_email"
    /\ raised = ""
    /\ ParserIdle
    /\ PollerIdle
    /\ PipelineIdle

\* lines 10-27: the message, its bodies and parse_email_body; extract_bodies
\* raises LookupError for an unknown charset
HandleEmail ==
    /\ pc = "handle_email"
    /\ \E outcome \in {"ok", "raise"} :
          IF outcome = "ok"
          THEN /\ data' = {"meta", "title", "body", "parsed"}
               /\ step' = 1
               /\ pc' = "pipeline"
               /\ UNCHANGED raised
          ELSE /\ raised' = "handle_email"
               /\ pc' = "raised"
               /\ UNCHANGED <<data, step>>
    /\ UNCHANGED <<res, parserVars, pollerVars>>

\* one of the lines 40-44: data = _run_step(mod, data, original)
RunStep ==
    /\ pc = "pipeline"
    /\ step \in 1..Len(STEPS)
    /\ \E o \in {"raise", "error", "ok"} :
          LET call == process(STEPS[step], data, o)
          IN  /\ res' = [mod |-> STEPS[step]] @@ call.res
              /\ data' = run_step(call.res, call.payload)
    /\ step' = step + 1
    /\ pc' = IF step = Len(STEPS) THEN "controller" ELSE "pipeline"
    /\ UNCHANGED <<raised, parserVars, pollerVars>>

\* line 47: ai_controller.handle writes _typed into data (ai_controller.py
\* line 497) and then asks the CRM, which raises on a network error
\* (rest_worker.py lines 44-56)
Controller ==
    /\ pc = "controller"
    /\ data' = data \cup {"_typed"}
    /\ res' = [mod |-> "ai_controller", kind |-> "none"]
    /\ \E outcome \in {"ok", "raise"} :
          IF outcome = "ok"
          THEN /\ pc' = "returned"
               /\ UNCHANGED raised
          ELSE /\ raised' = "ai_controller"
               /\ pc' = "raised"
    /\ UNCHANGED <<step, parserVars, pollerVars>>

NextPipeline ==
    \/ HandleEmail
    \/ RunStep
    \/ Controller

SpecPipeline == InitPipeline /\ [][NextPipeline]_vars

----------------------------------------------------------------------------
(* Helpers of the properties *)

Done == pc = "done"
BottomUpDone == Done /\ result.strategy = "bottom-up"

\* the non-blank lines among ls[lo..hi]
NonBlankIn(ls, lo, hi) == {n \in lo..hi : ~IsBlank(ls[n])}

\* ls without its leading and trailing blank lines
Trimmed(ls) ==
    IF NonBlankIn(ls, 1, Len(ls)) = {} THEN <<>>
    ELSE SubSeq(ls, Min(NonBlankIn(ls, 1, Len(ls))), Max(NonBlankIn(ls, 1, Len(ls))))

HeaderLinesOf(ls) == {n \in 1..Len(ls) : HEADER_KEYS_PATTERN(ls[n])}

\* the text has new content, then one header block, then quoted text
OneQuotedBlock ==
    /\ Len(hdr.segments) = 1
    /\ NonBlankIn(lines, 1, hdr.segments[1].start_line - 1) # {}
    /\ NonBlankIn(lines, hdr.segments[1].end_line + 1, Len(lines)) # {}

----------------------------------------------------------------------------
(* C1 *)

\* C1 as stated: in bottom-up mode, for new content followed by a quoted
\* header block and the quoted text below it, body_window.text is exactly the
\* new content above the block and has no header-key line.
C1_TextIsContentAboveBlock ==
    (BottomUpDone /\ OneQuotedBlock) =>
        /\ result.body_window.text =
               Trimmed(SubSeq(lines, 1, hdr.segments[1].start_line - 1))
        /\ \A n \in 1..Len(result.body_window.text) :
               ~HEADER_KEYS_PATTERN(result.body_window.text[n])

\* C1 amended: in bottom-up mode, for new content followed by a quoted header
\* block and the quoted text below it, body_window starts at the first line
\* of the header block: its text is the lines from there to the last
\* non-blank line, so it begins with a header-key line and has none of the
\* new content above the block.
C1_TextStartsAtBlock ==
    (BottomUpDone /\ OneQuotedBlock) =>
        /\ result.body_window.start_line = hdr.segments[1].start_line
        /\ result.body_window.text =
               SubSeq(lines, hdr.segments[1].start_line,
                      Max(NonBlankIn(lines, 1, Len(lines))))
        /\ HEADER_KEYS_PATTERN(result.body_window.text[1])
        /\ Len(result.body_window.text) < Len(Trimmed(lines))

C1_Witness == BottomUpDone /\ OneQuotedBlock

----------------------------------------------------------------------------
(* C2 *)

BoundaryFound == result.clusters # <<>> /\ IsHeaderCluster(result.clusters[1])

\* C2: in bottom-up mode, the walk finds a boundary header cluster exactly
\* when the text has a header-key line; then body_window starts at that
\* cluster's start_line and its text is the lines from there to the end of
\* the text, otherwise its text is the whole text; in both cases without
\* leading and trailing blank lines.  A text that is one header block is its
\* own window.
C2_WindowFromBoundary ==
    BottomUpDone =>
        /\ BoundaryFound <=> HeaderLinesOf(lines) # {}
        /\ BoundaryFound =>
            /\ result.body_window.start_line = result.clusters[1].start_line
            /\ result.body_window.text =
                   Trimmed(SubSeq(lines, result.clusters[1].start_line, Len(lines)))
        /\ ~BoundaryFound => result.body_window.text = Trimmed(lines)
        /\ (/\ Len(hdr.segments) = 1
            /\ hdr.segments[1].start_line = 1
            /\ hdr.segments[1].end_line = Len(lines)) =>
                result.body_window.text = lines

\* a boundary was found and blank lines were trimmed at the end of the slice
C2_Witness ==
    /\ BottomUpDone
    /\ BoundaryFound
    /\ result.body_window.start_line = result.clusters[1].start_line
    /\ Len(result.body_window.text) < Len(lines) - result.clusters[1].start_line + 1

----------------------------------------------------------------------------
(* C3 *)

NoNonBlankLine(b) == ~b.str \/ \A n \in 1..Len(b.pieces) : IsBlank(b.pieces[n])

\* C3: with the default strategy, parse of the empty string, of a body
\* without a non-blank line, or of a body that is no string returns no
\* cluster, strategy "bottom-up" and the empty body window.
C3_EmptyInput ==
    (Done /\ strategy = "bottom-up" /\ NoNonBlankLine(body)) =>
        result = [clusters |-> <<>>,
                  strategy |-> "bottom-up",
                  body_window |-> [start_line |-> 0, end_line |-> 0, text |-> <<>>]]

\* blank lines that survive splitlines()
C3_Witness ==
    /\ Done /\ strategy = "bottom-up" /\ NoNonBlankLine(body)
    /\ body.str /\ Len(lines) >= 1

----------------------------------------------------------------------------
(* C4 *)

\* a bound on the steps parse_email_body still takes
Rank ==
    LET L == Len(lines)
        afterHdr == 5 * L + 5
    IN  CASE pc = "start" -> 7 * (IF body.str THEN Len(body.pieces) ELSE 1) + 9
          [] pc = "hdr_outer" -> afterHdr + 2 * (L - i) + 2
          [] pc = "hdr_cont" -> afterHdr + 2 * (L - j) + 3
          [] pc = "regex" -> afterHdr
          [] pc = "cluster" -> afterHdr - 1
          [] pc = "walk" -> i + 2
          [] pc \in {"window", "top_down"} -> 1
          [] OTHER -> 0

IsParseResult(r) ==
    /\ r.strategy \in {"bottom-up", "top-down"}
    /\ \A n \in 1..Len(r.clusters) : r.clusters[n].items # <<>>
    /\ DOMAIN r = IF r.strategy = "bottom-up"
                  THEN {"clusters", "strategy", "body_window"}
                  ELSE {"clusters", "strategy"}

\* the step that is possible at each position before the return
CanStep ==
    CASE pc = "start" -> TRUE
      [] pc = "hdr_outer" -> i >= Len(lines) \/ i + 1 \in DOMAIN lines
      [] pc = "hdr_cont" -> j >= Len(lines) \/ j + 1 \in DOMAIN lines
      [] pc \in {"regex", "cluster", "window", "top_down"} -> TRUE
      [] pc = "walk" -> i + 1 \in DOMAIN all_clusters
      [] OTHER -> FALSE

\* C4: for every body, max_gap and strategy, no step of parse_email_body
\* raises, every step (so every iteration of the loops of the header detector
\* and of the bottom-up walk) strictly decreases a non-negative bound, a step
\* is possible until the call returns, and what it returns is a ParseResult.
C4_AlwaysReturns ==
    [][/\ pc' # "raised"
       /\ pc' # "done" => CanStep'
       /\ Rank' >= 0
       /\ Rank' < Rank
       /\ (pc = "hdr_outer" /\ pc' = "hdr_outer") => i' > i
       /\ (pc = "hdr_cont" /\ pc' = "hdr_cont") => j' > j
       /\ (pc = "hdr_cont" /\ pc' = "hdr_outer") => i' > i
       /\ (pc = "walk" /\ pc' = "walk") => (i' < i /\ i' >= 0)
       /\ pc' = "done" => IsParseResult(result')]_vars

\* a call with a negative gap and the empty strategy has returned; its walk
\* went over several clusters of a text with several header lines
C4_Witness ==
    /\ Done
    /\ max_gap < 0
    /\ strategy = ""
    /\ Len(selected) >= 2
    /\ Len(hdr.headers_list) >= 2

----------------------------------------------------------------------------
(* C5 *)

LastOf(sq) == sq[Len(sq)]

\* C5 as stated: in the returned cluster list, adjacent items of a cluster
\* are at most max_gap compact lines apart, and the last item of a cluster
\* and the first item of the next cluster are more than max_gap apart.
C5_ClusterContiguity ==
    Done =>
        /\ \A n \in 1..Len(result.clusters) :
               \A k \in 1..(Len(result.clusters[n].items) - 1) :
                   result.clusters[n].items[k + 1].cline
                       - result.clusters[n].items[k].cline <= max_gap
        /\ \A n \in 1..(Len(result.clusters) - 1) :
               result.clusters[n + 1].items[1].cline
                   - LastOf(result.clusters[n].items).cline > max_gap

----------------------------------------------------------------------------
(* C6 *)

\* C6 as stated: the returned clusters are ordered by start_line and no line
\* lies in the range of two of them.
C6_ClustersDisjoint ==
    Done =>
        /\ \A n \in 1..(Len(result.clusters) - 1) :
               result.clusters[n].start_line <= result.clusters[n + 1].start_line
        /\ \A a, b \in 1..Len(result.clusters) :
               a < b => \/ result.clusters[a].end_line < result.clusters[b].start_line
                        \/ result.clusters[b].end_line < result.clusters[a].start_line

----------------------------------------------------------------------------
(* C7 *)

\* C7 as stated: the cline of every returned item is the number of non-blank
\* lines at or before its line.
C7_ClineCountsNonBlank ==
    Done =>
        \A n \in 1..Len(result.clusters) :
            \A k \in 1..Len(result.clusters[n].items) :
                result.clusters[n].items[k].cline =
                    CompactIdx(lines, result.clusters[n].items[k].line)

----------------------------------------------------------------------------
(* C8 *)

\* the value without a leading "Weekday,"
AfterWeekday(v) ==
    IF Len(v) >= 2 /\ v[1].k = "word" /\ v[2].k = "comma"
    THEN SubSeq(v, 3, Len(v)) ELSE v

\* the value reads [Weekday,] D[.] MonthName YYYY HH:MM
DayMonthYearTime(v) ==
    LET w == AfterWeekday(v)
    IN  /\ Len(w) = 4
        /\ w[1].k \in {"num", "numdot"}
        /\ w[2].k = "word" /\ month_name_to_num(w[2].s) # 0
        /\ w[3].k = "year"
        /\ w[4].k = "time"

ExpectedIso(v) ==
    LET w == AfterWeekday(v)
    IN  IsoString(w[3].a, month_name_to_num(w[2].s), w[1].a, w[4].a, w[4].b, 0)

\* C8 as stated: a DATE or SENT header whose value reads
\* [Weekday,] D[.] MonthName YYYY HH:MM has in its segment the ISO companion
\* YYYY-MM-DDTHH:MM:00.
C8_MonthNameDateHasIso ==
    Done =>
        \A n \in 1..Len(hdr.segments) :
            \A k \in 1..Len(hdr.segments[n].entries) :
                LET e == hdr.segments[n].entries[k]
                    iso == e.normalized_key \o "_ISO"
                IN  (e.normalized_key \in {"DATE", "SENT"} /\ DayMonthYearTime(e.value)) =>
                        /\ iso \in DOMAIN hdr.segments[n].headers
                        /\ hdr.segments[n].headers[iso] = ExpectedIso(e.value)

----------------------------------------------------------------------------
(* C9 *)

EntriesOf(key) == IF DictHas(per_type, key) THEN DictGet(per_type, key) ELSE <<>>

\* the values recorded for a key on line n (a set: one entry at most)
RecordedFor(key, n) ==
    {EntriesOf(key)[k][1] : k \in {x \in 1..Len(EntriesOf(key)) : EntriesOf(key)[x][2] = n}}

\* what the patterns of a key find on a line, first occurrences only
FoundOn(key, l) == Dedup(FindAll(key, LineToks(l)))

Recorded(key, n) ==
    IF FoundOn(key, lines[n]) = <<>> THEN RecordedFor(key, n) = {}
    ELSE RecordedFor(key, n) = {FoundOn(key, lines[n])}

HasCalendarWord(l) ==
    \E t \in 1..Len(l.toks) :
        l.toks[t].k = "word" /\ lower(undot(l.toks[t].s)) \in CAL_WORDS

\* C9: after the matcher ran, a non-blank line with a weekday or month word
\* has no TEL entry, its EMAIL and URL entries are what the patterns find on
\* it, and every other line has the TEL entry of what the pattern finds.
C9_TelSuppressedOnCalendarLines ==
    pc = "cluster" =>
        \A n \in 1..Len(lines) :
            /\ Recorded("EMAIL", n)
            /\ Recorded("URL", n)
            /\ IF HasCalendarWord(lines[n]) THEN RecordedFor("TEL", n) = {}
               ELSE Recorded("TEL", n)

\* a calendar line with a phone number and an address, and a phone number
\* recorded on another line
C9_Witness ==
    /\ pc = "cluster"
    /\ \E n, o \in 1..Len(lines) :
        /\ HasCalendarWord(lines[n])
        /\ FoundOn("TEL", lines[n]) # <<>>
        /\ RecordedFor("EMAIL", n) # {}
        /\ o # n
        /\ RecordedFor("TEL", o) # {}

----------------------------------------------------------------------------
(* C10 *)

\* some returned item of a header type whose value has the address
HeaderItemWith(type, addr) ==
    \E n \in 1..Len(result.clusters) :
        \E k \in 1..Len(result.clusters[n].items) :
            LET it == result.clusters[n].items[k]
            IN  /\ it.type = type
                /\ \E t \in 1..Len(it.values[1]) :
                       it.values[1][t].k \in {"email", "aemail"} /\ it.values[1][t].s = addr

\* some returned EMAIL item whose values have the address
EmailItemWith(addr) ==
    \E n \in 1..Len(result.clusters) :
        \E k \in 1..Len(result.clusters[n].items) :
            LET it == result.clusters[n].items[k]
            IN  /\ it.type = "EMAIL"
                /\ \E v \in 1..Len(it.values) : it.values[v] = addr

\* C10 as stated: for a body with a header line "alias: Name <addr>", parse
\* with the default strategy returns a header item of the alias' canonical
\* type whose value has addr, and an EMAIL item whose values have addr.
C10_HeaderAddressReturned ==
    (Done /\ strategy = "bottom-up" /\ body.str) =>
        \A n \in 1..Len(body.pieces) :
            \A t \in 1..Len(body.pieces[n].toks) :
                LET l == body.pieces[n]
                IN  (HEADER_KEYS_PATTERN(l) /\ l.toks[t].k = "aemail") =>
                        /\ HeaderItemWith(HEADER_ALIASES[lower(l.key)], l.toks[t].s)
                        /\ EmailItemWith(l.toks[t].s)

----------------------------------------------------------------------------
(* C11 *)

\* the clusters are built
Clustered == pc \in {"walk", "window", "top_down", "done"}

\* a pattern of the matcher finds something on line p
MatchLine(p) ==
    /\ ~IsBlank(lines[p])
    /\ \E n \in 1..Len(PATTERN_KEYS) : LineHits(lines, p, PATTERN_KEYS[n]) # <<>>

\* some match cluster has an item of line p and an item of line q
SameCluster(p, q) ==
    \E n \in 1..Len(all_clusters) :
        /\ ~IsHeaderCluster(all_clusters[n])
        /\ \E k \in 1..Len(all_clusters[n].items) : all_clusters[n].items[k].line = p
        /\ \E k \in 1..Len(all_clusters[n].items) : all_clusters[n].items[k].line = q

\* two lines with matches and only blank lines between them
BlankSeparated(p, q) ==
    /\ p < q
    /\ MatchLine(p)
    /\ MatchLine(q)
    /\ \A n \in (p + 1)..(q - 1) : IsBlank(lines[n])

\* C11 as stated: with max_gap = 1, two matches on adjacent lines or with one
\* blank line between them are in the same cluster, and two matches with two
\* or more blank lines (and nothing else) between them are in different
\* clusters.
C11_TwoBlankLinesSplit ==
    (Clustered /\ max_gap = 1) =>
        \A p \in 1..Len(lines) : \A q \in 1..Len(lines) :
            BlankSeparated(p, q) =>
                /\ (q - p - 1 <= 1) => SameCluster(p, q)
                /\ (q - p - 1 >= 2) => ~SameCluster(p, q)

\* C11 amended: with max_gap = 1, two matches on lines that are adjacent or
\* have only blank lines between them, however many, are in the same cluster:
\* blank lines get no compact line number and never force a split.
C11_BlankLinesNeverSplit ==
    (Clustered /\ max_gap = 1) =>
        \A p \in 1..Len(lines) : \A q \in 1..Len(lines) :
            BlankSeparated(p, q) => SameCluster(p, q)

\* two matches with two or more blank lines between them, clustered together
C11_Witness ==
    /\ Done
    /\ max_gap = 1
    /\ \E p \in 1..Len(lines) : \E q \in 1..Len(lines) :
            BlankSeparated(p, q) /\ q - p - 1 >= 2 /\ SameCluster(p, q)

----------------------------------------------------------------------------
(* C12 *)

\* the normalizer has returned
Visible == pc = "visible"

\* the '\n' of s, and the lines of s between them being blank
NoCarriageReturn(s) == \A n \in 1..Len(s) : s[n] # "\r"
BlankBetween(s, a, b) == \A n \in (a + 1)..(b - 1) : s[n] \in {" ", "\r"}
ThreeBlankLines(s) ==
    \E a \in 1..Len(s) : \E b \in 1..Len(s) : \E c \in 1..Len(s) : \E d \in 1..Len(s) :
        /\ a < b /\ b < c /\ c < d
        /\ s[a] = "\n" /\ s[b] = "\n" /\ s[c] = "\n" /\ s[d] = "\n"
        /\ BlankBetween(s, a, b) /\ BlankBetween(s, b, c) /\ BlankBetween(s, c, d)
ThreeNewlines(s) ==
    \E n \in 1..(Len(s) - 2) : s[n] = "\n" /\ s[n + 1] = "\n" /\ s[n + 2] = "\n"
Stripped(s) == s = <<>> \/ (s[1] \notin WS /\ s[Len(s)] \notin WS)

----------------------------------------------------------------------------
(* C13 *)

\* the text has an HTML tag: "<", the name of an element, and a later ">"
ContainsTag(s) ==
    \E n \in 1..(Len(s) - 1) : s[n] = "<" /\ s[n + 1] = "p" /\ FirstGt(s, n + 2) # 0

\* the text has an e-mail address in angle brackets
ContainsAngleEmail(s) == \E n \in 1..Len(s) : AngleEmailLen(s, n) > 0

\* C13 as stated: a raw body without an HTML tag is returned character for
\* character; "<" and ">" in plain text change nothing and nothing between a
\* "<" and a later ">" is deleted.  (Stated here for the bodies that have no
\* address in angle brackets either.)
C13_PlainTextUnchanged ==
    (Visible /\ body.str /\ ~ContainsTag(body.chars) /\ ~ContainsAngleEmail(body.chars))
        => text = body.chars

----------------------------------------------------------------------------
(* C14 *)

\* the same cluster (clusters of one kind only are compared)
EqualClusters(c, d) == IsHeaderCluster(c) = IsHeaderCluster(d) /\ c = d
Occurrences(cs, c) == Cardinality({n \in 1..Len(cs) : EqualClusters(cs[n], c)})

\* the match clusters and the header clusters of the call, before the merge
BuiltClusters ==
    body_clusters_of(per_type, max_gap) \o header_clusters_of(hdr.segments)

Ascending(cs) == \A n \in 1..(Len(cs) - 1) : cs[n].start_line <= cs[n + 1].start_line

\* C14: the returned strategy is 'bottom-up' or 'top-down' and body_window is
\* there exactly for 'bottom-up'; with strategy 'top-down' the result has
\* strategy 'top-down', no body_window, and its clusters are all the match
\* clusters and header clusters, each once, in ascending start_line order.
C14_TopDownReturnsAll ==
    Done =>
        /\ result.strategy \in {"bottom-up", "top-down"}
        /\ ("body_window" \in DOMAIN result) <=> (result.strategy = "bottom-up")
        /\ strategy = "top-down" =>
            /\ result.strategy = "top-down"
            /\ Len(result.clusters) = Len(BuiltClusters)
            /\ \A n \in 1..Len(BuiltClusters) :
                   Occurrences(result.clusters, BuiltClusters[n]) =
                   Occurrences(BuiltClusters, BuiltClusters[n])
            /\ Ascending(result.clusters)

\* a top-down result with a header cluster ahead of a match cluster
C14_Witness ==
    /\ Done
    /\ strategy = "top-down"
    /\ \E n \in 1..Len(result.clusters) : \E k \in 1..Len(result.clusters) :
          /\ n < k
          /\ IsHeaderCluster(result.clusters[n])
          /\ ~IsHeaderCluster(result.clusters[k])
          /\ result.clusters[n].start_line < result.clusters[k].start_line

----------------------------------------------------------------------------
(* C15 *)

\* what the call returns for the same body and max_gap with 'top-down'
TopDownClusters == all_clusters

HeaderClustersIn(cs) == {n \in 1..Len(cs) : IsHeaderCluster(cs[n])}

\* C15: the clusters of a bottom-up result are the top-down clusters from the
\* last header cluster on (all of them if there is none), in the same order;
\* so at most one of them is a header cluster, and then it is the first.
C15_BottomUpIsSuffix ==
    BottomUpDone =>
        LET hs == HeaderClustersIn(TopDownClusters)
            from == IF hs = {} THEN 1 ELSE Max(hs)
        IN  /\ Len(result.clusters) = Len(TopDownClusters) - from + 1
            /\ \A n \in 1..Len(result.clusters) :
                   EqualClusters(result.clusters[n], TopDownClusters[from + n - 1])
            /\ Cardinality(HeaderClustersIn(result.clusters)) <= 1
            /\ HeaderClustersIn(result.clusters) \subseteq {1}

\* a bottom-up result that starts at a header cluster, has a cluster behind
\* it and leaves clusters out
C15_Witness ==
    /\ BottomUpDone
    /\ Len(result.clusters) >= 2
    /\ IsHeaderCluster(result.clusters[1])
    /\ Len(result.clusters) < Len(TopDownClusters)

----------------------------------------------------------------------------
(* C17 *)

\* parse_header_block has returned
HeadersParsed == pc \in {"regex", "cluster", "walk", "window", "top_down", "done"}

\* a line that can continue a value according to the claim
WrappedLine(l) == ~IsBlank(l) /\ l.ind /\ ~HEADER_KEYS_PATTERN(l)

\* the value of the header of line p: its own, and the wrapped lines below
WrappedValue(p) ==
    LET e == CHOOSE k \in p..Len(lines) :
                /\ \A q \in (p + 1)..k : WrappedLine(lines[q])
                /\ k = Len(lines) \/ ~WrappedLine(lines[k + 1])
    IN  lines[p].toks \o Concat([q \in 1..(e - p) |-> LineToks(lines[p + q])])

\* C17 as stated: every header-key line, indented or not, gets its own header
\* entry, in a segment, and the value of an entry is the value on its line
\* joined with the following indented lines that are no header-key lines; an
\* indented header-key line is not absorbed into the value above it.
C17_IndentedHeaderEndsValue ==
    HeadersParsed =>
        \A p \in 1..Len(lines) :
            HEADER_KEYS_PATTERN(lines[p]) =>
                /\ \E n \in 1..Len(hdr.headers_list) :
                      /\ hdr.headers_list[n].line = p
                      /\ hdr.headers_list[n].key = lines[p].key
                      /\ hdr.headers_list[n].value = WrappedValue(p)
                /\ \E n \in 1..Len(hdr.segments) :
                      \E k \in 1..Len(hdr.segments[n].entries) :
                          hdr.segments[n].entries[k].line = p

----------------------------------------------------------------------------
(* C18 *)

\* the lines of the entries of a segment
EntryLines(sg) == {sg.entries[k].line : k \in 1..Len(sg.entries)}

\* C18: the segments of the header detector are in ascending order and do not
\* overlap; a segment starts at the line of its first entry, start_line <=
\* end_line, each of its lines is the line of an entry or an absorbed indented
\* line and never blank, and the lines right before and right after it are
\* no header-key lines.
C18_SegmentsContiguousMaximal ==
    HeadersParsed =>
        \A n \in 1..Len(hdr.segments) :
            LET sg == hdr.segments[n]
            IN  /\ 1 <= sg.start_line
                /\ sg.start_line <= sg.end_line
                /\ sg.end_line <= Len(lines)
                /\ sg.entries # <<>>
                /\ sg.entries[1].line = sg.start_line
                /\ \A p \in sg.start_line..sg.end_line :
                      /\ ~IsBlank(lines[p])
                      /\ p \in EntryLines(sg) \/ (p > sg.start_line /\ lines[p].ind)
                /\ \A p \in EntryLines(sg) :
                      p \in sg.start_line..sg.end_line /\ HEADER_KEYS_PATTERN(lines[p])
                /\ n < Len(hdr.segments) => sg.end_line < hdr.segments[n + 1].start_line
                /\ sg.start_line > 1 => ~HEADER_KEYS_PATTERN(lines[sg.start_line - 1])
                /\ sg.end_line < Len(lines) => ~HEADER_KEYS_PATTERN(lines[sg.end_line + 1])

\* two segments, the first with an absorbed line or a second header
C18_Witness ==
    /\ Done
    /\ Len(hdr.segments) = 2
    /\ hdr.segments[2].start_line = Len(lines)

----------------------------------------------------------------------------
(* C19 *)

\* the headers maps the detector returns: the global one and the segments'
HeaderMaps == <<hdr.headers>> \o [n \in 1..Len(hdr.segments) |-> hdr.segments[n].headers]

\* C19 as stated: in each headers map, DATE_ISO (SENT_ISO) is there exactly
\* when the DATE (SENT) value of that map normalizes, and it is the
\* normalization of that value, also when the key occurs several times.
C19_IsoMatchesStoredValue ==
    HeadersParsed =>
        \A n \in 1..Len(HeaderMaps) : \A k \in {"DATE", "SENT"} :
            LET d == HeaderMaps[n]
                iso == k \o "_ISO"
            IN  /\ (iso \in DOMAIN d) <=>
                       (k \in DOMAIN d /\ try_parse_date(d[k]) # NoIso)
                /\ (iso \in DOMAIN d) => d[iso] = try_parse_date(d[k])

----------------------------------------------------------------------------
(* C20 *)

\* the fields of an ISO string are in the ranges of a timestamp
WellFormedIso(t) ==
    /\ t[1] \in 0..9999
    /\ t[2] \in 1..12
    /\ t[3] \in 1..31
    /\ t[4] \in 0..23
    /\ t[5] \in 0..59
    /\ t[6] \in 0..59

\* C20 as stated: every *_ISO value is a well-formed timestamp, month 1..12,
\* day 1..31, hour 0..23, minute and second 0..59; a value with fields out of
\* range gets no *_ISO companion.
C20_IsoFieldsInRange ==
    HeadersParsed =>
        \A n \in 1..Len(HeaderMaps) : \A k \in {"DATE_ISO", "SENT_ISO"} :
            k \in DOMAIN HeaderMaps[n] => WellFormedIso(HeaderMaps[n][k])

----------------------------------------------------------------------------
(* C21 *)

MATCH_TYPES == {"EMAIL", "URL", "TEL"}

NoDuplicates(vs) == \A n \in 1..Len(vs) : \A k \in 1..Len(vs) : vs[n] = vs[k] => n = k

\* C21 as stated: in every returned cluster, every item of type EMAIL, URL or
\* TEL has a values list without duplicates; this includes the EMAIL items
\* derived from header values such as 'To: a@x.com, a@x.com'.
C21_ValuesUnique ==
    Done =>
        \A n \in 1..Len(result.clusters) :
            \A k \in 1..Len(result.clusters[n].items) :
                LET it == result.clusters[n].items[k]
                IN  it.type \in MATCH_TYPES => NoDuplicates(it.values)

----------------------------------------------------------------------------
(* C22 *)

\* position of the first double quote from n on (0: none)
FirstQuote(s, n) ==
    LET g == {k \in n..Len(s) : s[k] = "\""}
    IN  IF g = {} THEN 0 ELSE CHOOSE k \in g : \A q \in g : k <= q

\* the text with every href value replaced by the empty value
HrefValueLen(s, n) ==
    IF n >= 3 /\ s[n - 2] = "href=" /\ s[n - 1] = "\"" /\ FirstQuote(s, n) # 0
    THEN FirstQuote(s, n) - n ELSE 0
Nothing(s, n) == <<>>
WithoutHrefValues(s) == Substitute(s, HrefValueLen, Nothing)

\* C22 as stated: the VisibleText does not depend on the href values of the
\* anchors, it is the VisibleText of the body with empty href values; so a
\* URL that is only in an href value is not in the VisibleText, and is never
\* reported.
C22_HrefNeverVisible ==
    (Visible /\ body.str) =>
        /\ text = extract_visible_text_chars(Chars(WithoutHrefValues(body.chars)))
        /\ \A n \in 1..Len(text) : text[n] # URL


\* C23 as stated: for every segment, cstart is the number of non-blank lines
\* at or before start_line and cend the number at or before end_line; this
\* holds also for a segment that follows a header with continuation lines.
C23_SegmentCompactBounds ==
    HeadersParsed =>
        \A n \in 1..Len(hdr.segments) :
            LET sg == hdr.segments[n]
            IN  /\ sg.cstart = CompactIdx(lines, sg.start_line)
                /\ sg.cend = CompactIdx(lines, sg.end_line)

----------------------------------------------------------------------------
(* C25 *)

\* the fixed order of the pipeline steps
PIPELINE_ORDER ==
    <<"ai_email_parser", "ai_spacy_ner_email_parser", "ai_extract_crm",
      "ai_predict_intention", "ai_web", "ai_controller">>

\* the step raised, or returned None, no dict or an empty dict
StepFailed(r) == r.kind # "dict" \/ r.keys = {}

\* C25: in handle_email, the steps run in the fixed order; if a step raises
\* or returns None, a non-dict or an empty dict, the data handed to the next
\* step is the data as it was before the step, without a change of the
\* failed step.
C25_FailedStepKeepsData ==
    [][/\ pc = "pipeline" =>
            /\ step' = step + 1
            /\ res'.mod = PIPELINE_ORDER[step]
            /\ pc' = IF step' <= 5 THEN "pipeline" ELSE "controller"
            /\ StepFailed(res') => data' = data
       /\ pc = "controller" => res'.mod = PIPELINE_ORDER[step]
      ]_vars

\* ai_extract_crm has raised after ai_email_parser wrote its keys, and the
\* next step gets data with those keys and without ai_extract_crm
C25_Witness ==
    /\ pc = "pipeline"
    /\ step = 4
    /\ res.mod = "ai_extract_crm"
    /\ res.kind = "raised"
    /\ "signature" \in data
    /\ "ai_extract_crm" \notin data


\* the returned window has text
WindowDone == BottomUpDone /\ result.body_window.text # <<>>

\* some returned cluster has an item of type key on line p with all of hits
ReturnedItemWith(key, p, hits) ==
    \E n \in 1..Len(result.clusters) :
        \E k \in 1..Len(result.clusters[n].items) :
            LET it == result.clusters[n].items[k]
            IN  /\ it.type = key
                /\ it.line = p
                /\ \A h \in 1..Len(hits) : \E v \in 1..Len(it.values) : it.values[v] = hits[h]

\* C26 as stated: in bottom-up mode, every EMAIL, URL or TEL match on a line
\* inside the returned body window is an item of some returned cluster; this
\* includes the addresses on the lines of the boundary header itself.
C26_WindowMatchesReturned ==
    WindowDone =>
        \A p \in result.body_window.start_line..result.body_window.end_line :
            \A key \in MATCH_TYPES :
                (~IsBlank(lines[p]) /\ LineHits(lines, p, key) # <<>>) =>
                    ReturnedItemWith(key, p, LineHits(lines, p, key))

----------------------------------------------------------------------------
(* C27 *)

\* C27 as stated: a body window with text has 1 <= start_line <= end_line <=
\* number of lines of the visible text, and its text is exactly the lines
\* start_line..end_line, so its first and last lines are non-blank and it has
\* end_line - start_line + 1 lines.
C27_WindowIsLineRange ==
    WindowDone =>
        LET w == result.body_window
        IN  /\ 1 <= w.start_line
            /\ w.start_line <= w.end_line
            /\ w.end_line <= Len(lines)
            /\ w.text = SubSeq(lines, w.start_line, w.end_line)
            /\ ~IsBlank(lines[w.start_line])
            /\ ~IsBlank(lines[w.end_line])
            /\ Len(w.text) = w.end_line - w.start_line + 1

----------------------------------------------------------------------------
(* C28 *)

\* C28: in bottom-up mode with a window that has text, every item of every
\* returned cluster is on a line of the window, and the line of every item is
\* between the start_line and the end_line of its cluster.
C28_ItemsInsideWindow ==
    WindowDone =>
        \A n \in 1..Len(result.clusters) :
            \A k \in 1..Len(result.clusters[n].items) :
                LET c == result.clusters[n]
                    it == c.items[k]
                IN  /\ result.body_window.start_line <= it.line
                    /\ it.line <= result.body_window.end_line
                    /\ c.start_line <= it.line
                    /\ it.line <= c.end_line

\* a match cluster behind the boundary header cluster, after a blank line, and
\* the window starts below the first line
C28_Witness ==
    /\ WindowDone
    /\ result.body_window.start_line > 1
    /\ \E n \in 1..Len(result.clusters) :
          /\ ~IsHeaderCluster(result.clusters[n])
          /\ result.clusters[n].cstart < result.clusters[n].start_line

----------------------------------------------------------------------------
(* C24 *)

\* C24: over a run of IMAPPoller.loop, across polling cycles and reconnects,
\* fetch_email_by_uid and the handler are called at most once per UID: a UID
\* that a later UNSEEN search returns again is filtered out by the seen-UID
\* set.
C24_AtMostOncePerUid ==
    \A u \in UIDS : fetched[u] <= 1 /\ handled[u] <= 1

\* a handled UID was returned again by a search and filtered out, on a
\* connection made by safe_reconnect after a failed try
C24_Witness ==
    /\ pc = "for"
    /\ conn = "IMAP4_SSL"
    /\ attempt > 0
    /\ \E u \in DOMAIN handled : handled[u] = 1 /\ u \in filtered

----------------------------------------------------------------------------
(* C29 *)

\* C29 as stated: a UID whose fetch failed is offered again by a later
\* cycle.  The search offers the UIDs that are not in _last_seen_uids, so
\* when a cycle is over, no message that is UNSEEN and was not passed to the
\* handler may be in that set.
C29_FailedFetchOfferedAgain ==
    pc = "sleep" =>
        \A u \in unseen : handled[u] = 0 => u \notin last_seen_uids

----------------------------------------------------------------------------
(* C30 *)

\* C30 as stated: a failure of the handler does not stop the poller, loop
\* goes on with the remaining UIDs and with later cycles; and when loop
\* exits, it has logged out.
C30_HandlerFailureKeepsPolling ==
    /\ pc \in {"finally", "exited"} => raised # "handler"
    /\ pc = "exited" => conn = "None"

====
